---- MODULE Spec2Model ----
(***************************************************************************)
(* allchange: changelog generation from merged pull requests.              *)
(*                                                                         *)
(* The module models, from the TypeScript sources,                         *)
(*   - updateChangelog / readChangelog / makeChangelogEntry (changelog.ts),*)
(*   - the top-level run main() (index.ts) with the release resolver       *)
(*     (releases.ts),                                                      *)
(*   - changeFromPrInfo (changes.ts).                                      *)
(*                                                                         *)
(* JavaScript strings are sequences of one-character strings, so that      *)
(* trimming, splitting, regular expressions and semver parsing are         *)
(* computed as the code computes them.                                     *)
(***************************************************************************)
EXTENDS Integers, Sequences, FiniteSets, TLC

VARIABLES
    pc,             \* control point of the run
    fs,             \* the project directory: path -> file
    orig,           \* CHANGELOG.md as it was when the run started
    version,        \* args.version / forVersion
    checkMode,      \* args.check
    previewMode,    \* args.preview
    changes,        \* allChanges handed to updateChangelog
    pending,        \* entries readChangelog has still to yield
    changeWritten,  \* updateChangelog's local flag
    err,            \* what the run threw, "" if nothing
    fromVer,        \* main's fromVer
    toVer,          \* main's toVer
    branchMode,     \* main's branchMode
    pr,             \* the PrInfo handed to changeFromPrInfo
    change,         \* the IChange it returned
    releaseCfg,     \* project name -> the subprojects of its release_config.yaml
    mergedPrs,      \* the PRs found merged in a project's range
    accum,          \* collectChanges' accumulator: ChangesByProject
    stack,          \* the calls of collectChanges in progress, innermost first
    visits,         \* project name -> times its PRs were resolved and classified
    releases,       \* the release list getReleases returned
    branches,       \* the branches of the checkout that branchExists finds
    mergeCommits,   \* the merge commits getPrInfo is called with
    prMap,          \* PR number -> sha still to find, as a set of entries
    mergedPrInfo,   \* the PRs getPrInfo has accepted
    pageNum,        \* the page of the closed-PR listing to fetch next
    pulls           \* the pages of the closed-PR listing of the repository

vars == <<pc, fs, orig, version, checkMode, previewMode, changes, pending, changeWritten, err,
          fromVer, toVer, branchMode, pr, change, releaseCfg, mergedPrs, accum, stack, visits,
          releases, branches, mergeCommits, prMap, mergedPrInfo, pageNum, pulls>>

-----------------------------------------------------------------------------
(* Bounds of the model.                                                    *)

\* longest CHANGELOG.md, in lines, the update specification starts from
MaxLines == 3

\* longest CHANGELOG.md, in lines, a run of main starts from
MaxMainLines == 1

\* longest release list getReleases returns
MaxReleases == 3

\* most lines of a pull request body made of lines other than issue references
MaxBodyLines == 2

\* most pages the closed-PR listing of the repository has
MaxPages == 2

-----------------------------------------------------------------------------
(* Characters and strings.                                                 *)

Digits == {"0", "1", "2", "3", "4", "5", "6", "7", "8", "9"}

UpperLetters == <<"A", "B", "C", "D", "E", "F", "G", "H", "I", "J", "K", "L", "M", "N", "O", "P", "Q", "R", "S", "T", "U", "V", "W", "X", "Y", "Z">>

LowerLetters == <<"a", "b", "c", "d", "e", "f", "g", "h", "i", "j", "k", "l", "m", "n", "o", "p", "q", "r", "s", "t", "u", "v", "w", "x", "y", "z">>

IsDigit(c) == c \in Digits

IsUpper(c) == \E i \in 1..Len(UpperLetters) : UpperLetters[i] = c

IsLetter(c) == IsUpper(c) \/ \E i \in 1..Len(LowerLetters) : LowerLetters[i] = c

\* \w of a JavaScript regular expression
IsWordChar(c) == IsLetter(c) \/ IsDigit(c) \/ c = "_"

IsSpace(c) == c \in {" ", "\t", "\r", "\n"}

DigitVal(c) ==
    CASE c = "0" -> 0 [] c = "1" -> 1 [] c = "2" -> 2 [] c = "3" -> 3 [] c = "4" -> 4
      [] c = "5" -> 5 [] c = "6" -> 6 [] c = "7" -> 7 [] c = "8" -> 8 [] c = "9" -> 9

DigitChar(d) ==
    CASE d = 0 -> "0" [] d = 1 -> "1" [] d = 2 -> "2" [] d = 3 -> "3" [] d = 4 -> "4"
      [] d = 5 -> "5" [] d = 6 -> "6" [] d = 7 -> "7" [] d = 8 -> "8" [] d = 9 -> "9"

ToLowerChar(c) ==
    IF IsUpper(c)
    THEN LowerLetters[CHOOSE i \in 1..Len(UpperLetters) : UpperLetters[i] = c]
    ELSE c

toLowerCase(s) == IF s = <<>> THEN <<>> ELSE [i \in 1..Len(s) |-> ToLowerChar(s[i])]

\* code-unit order of the characters the model uses
CharOrder == <<"\t", "\n", "\r", " ", "#", "-", ".", "/", "0", "1", "2", "3", "4", "5", "6", "7", "8", "9", ":", "A", "B", "C", "D", "E", "F", "G", "H", "I", "J", "K", "L", "M", "N", "O", "P", "Q", "R", "S", "T", "U", "V", "W", "X", "Y", "Z", "_", "a", "b", "c", "d", "e", "f", "g", "h", "i", "j", "k", "l", "m", "n", "o", "p", "q", "r", "s", "t", "u", "v", "w", "x", "y", "z">>

CharCode(c) == CHOOSE i \in 1..Len(CharOrder) : CharOrder[i] = c

RECURSIVE StrLess(_, _)
StrLess(a, b) ==
    IF b = <<>> THEN FALSE
    ELSE IF a = <<>> THEN TRUE
    ELSE IF Head(a) = Head(b) THEN StrLess(Tail(a), Tail(b))
    ELSE CharCode(Head(a)) < CharCode(Head(b))

\* String.prototype.indexOf, 1-based, 0 when absent
IndexOf(s, c) ==
    IF \E i \in 1..Len(s) : s[i] = c
    THEN CHOOSE i \in 1..Len(s) : s[i] = c /\ \A j \in 1..(i - 1) : s[j] # c
    ELSE 0

\* String.prototype.split(c), no limit
Split(s, c) ==
    LET seps == {i \in 1..Len(s) : s[i] = c}
        n == Cardinality(seps)
        \* the position of the k-th separator, with the two ends of s
        SepAt(k) == IF k = 0 THEN 0
                    ELSE IF k = n + 1 THEN Len(s) + 1
                    ELSE CHOOSE i \in seps : Cardinality({j \in seps : j < i}) = k - 1
    IN  [k \in 1..(n + 1) |-> SubSeq(s, SepAt(k - 1) + 1, SepAt(k) - 1)]

StartsWith(s, p) == Len(s) >= Len(p) /\ SubSeq(s, 1, Len(p)) = p

\* parseInt of a run of decimal digits
RECURSIVE DigitsToInt(_)
DigitsToInt(t) ==
    IF t = <<>> THEN 0
    ELSE 10 * DigitsToInt(SubSeq(t, 1, Len(t) - 1)) + DigitVal(t[Len(t)])

\* String(n) of a natural number
RECURSIVE IntToStr(_)
IntToStr(n) ==
    IF n < 10 THEN <<DigitChar(n)>>
    ELSE IntToStr(n \div 10) \o <<DigitChar(n % 10)>>

RECURSIVE Flatten(_)
Flatten(ss) == IF ss = <<>> THEN <<>> ELSE Head(ss) \o Flatten(Tail(ss))

-----------------------------------------------------------------------------
(* The semver package, as far as the sources call it.  A SemVer is a       *)
(* record; valid = FALSE stands for the null that semver.parse returns.    *)
(* Build metadata ("+...") is not in the alphabet of the model.            *)

NoSemVer ==
    [valid |-> FALSE, major |-> 0, minor |-> 0, patch |-> 0, prerelease |-> <<>>]

\* 0|[1-9]\d*
IsNumericIdentifier(t) ==
    /\ t # <<>>
    /\ \A i \in 1..Len(t) : IsDigit(t[i])
    /\ (Len(t) = 1 \/ t[1] # "0")

\* 0|[1-9]\d*|\d*[a-zA-Z-][a-zA-Z0-9-]*
IsPrereleaseIdentifier(t) ==
    /\ t # <<>>
    /\ \A i \in 1..Len(t) : IsDigit(t[i]) \/ IsLetter(t[i]) \/ t[i] = "-"
    /\ ((\A i \in 1..Len(t) : IsDigit(t[i])) => (Len(t) = 1 \/ t[1] # "0"))

\* a prerelease identifier: numeric ones are kept as numbers
PrereleaseId(t) ==
    IF \A i \in 1..Len(t) : IsDigit(t[i])
    THEN [num |-> TRUE, n |-> DigitsToInt(t), s |-> <<>>]
    ELSE [num |-> FALSE, n |-> 0, s |-> t]

\* semver.parse(str): ^v?MAJOR.MINOR.PATCH(-PRERELEASE)?$
semverParse(str) ==
    LET s == IF str # <<>> /\ Head(str) = "v" THEN Tail(str) ELSE str
        dash == IndexOf(s, "-")
        mainStr == IF dash = 0 THEN s ELSE SubSeq(s, 1, dash - 1)
        mainParts == Split(mainStr, ".")
        preParts == IF dash = 0 THEN <<>> ELSE Split(SubSeq(s, dash + 1, Len(s)), ".")
    IN  IF /\ Len(mainParts) = 3
           /\ \A i \in 1..3 : IsNumericIdentifier(mainParts[i])
           /\ \A i \in 1..Len(preParts) : IsPrereleaseIdentifier(preParts[i])
        THEN [valid |-> TRUE,
              major |-> DigitsToInt(mainParts[1]),
              minor |-> DigitsToInt(mainParts[2]),
              patch |-> DigitsToInt(mainParts[3]),
              prerelease |-> IF preParts = <<>> THEN <<>>
                             ELSE [i \in 1..Len(preParts) |-> PrereleaseId(preParts[i])]]
        ELSE NoSemVer

compareNumbers(a, b) == IF a = b THEN 0 ELSE IF a < b THEN -1 ELSE 1

\* semver/internal/identifiers.js compareIdentifiers
compareIdentifiers(a, b) ==
    IF a.num /\ b.num THEN compareNumbers(a.n, b.n)
    ELSE IF a.num THEN -1
    ELSE IF b.num THEN 1
    ELSE IF a.s = b.s THEN 0
    ELSE IF StrLess(a.s, b.s) THEN -1 ELSE 1

\* SemVer.compareMain
compareMain(a, b) ==
    IF a.major # b.major THEN compareNumbers(a.major, b.major)
    ELSE IF a.minor # b.minor THEN compareNumbers(a.minor, b.minor)
    ELSE compareNumbers(a.patch, b.patch)

RECURSIVE comparePreFrom(_, _, _)
comparePreFrom(a, b, i) ==
    IF i > Len(a) /\ i > Len(b) THEN 0
    ELSE IF i > Len(b) THEN 1
    ELSE IF i > Len(a) THEN -1
    ELSE IF a[i] = b[i] THEN comparePreFrom(a, b, i + 1)
    ELSE compareIdentifiers(a[i], b[i])

\* SemVer.comparePre
comparePre(a, b) ==
    IF a.prerelease # <<>> /\ b.prerelease = <<>> THEN -1
    ELSE IF a.prerelease = <<>> /\ b.prerelease # <<>> THEN 1
    ELSE IF a.prerelease = <<>> /\ b.prerelease = <<>> THEN 0
    ELSE comparePreFrom(a.prerelease, b.prerelease, 1)

\* a.compare(other) for a string other: new SemVer(other) throws on an
\* invalid string, and a null receiver throws too
semverCompare(a, other) ==
    LET b == semverParse(other)
    IN  IF ~a.valid \/ ~b.valid THEN [threw |-> TRUE, r |-> 0]
        ELSE [threw |-> FALSE,
              r |-> IF compareMain(a, b) # 0 THEN compareMain(a, b) ELSE comparePre(a, b)]

RECURSIVE formatPrerelease(_)
formatPrerelease(ids) ==
    IF ids = <<>> THEN <<>>
    ELSE (IF Head(ids).num THEN IntToStr(Head(ids).n) ELSE Head(ids).s)
         \o (IF Len(ids) > 1 THEN <<".">> \o formatPrerelease(Tail(ids)) ELSE <<>>)

\* SemVer.format(): the version without a leading "v"
semverFormat(v) ==
    IntToStr(v.major) \o <<".">> \o IntToStr(v.minor) \o <<".">> \o IntToStr(v.patch)
    \o (IF v.prerelease = <<>> THEN <<>> ELSE <<"-">> \o formatPrerelease(v.prerelease))

-----------------------------------------------------------------------------
(* changelog.ts.  A file is a sequence of lines, as readline yields them   *)
(* and as write() puts them back, one "\n" after each.  A line is          *)
(*   k = "hdr": "Changes in [" ver "]" and a rest of the line (tag: the    *)
(*              date the header was rendered on), ver holding no "]";      *)
(*   k = "txt": any other line (tag: its text, n: a PR number on the       *)
(*              bullet of a change).                                       *)

HeaderLine(ver, date) == [k |-> "hdr", ver |-> ver, tag |-> date, n |-> 0]

TextLine(text) == [k |-> "txt", ver |-> <<>>, tag |-> text, n |-> 0]

BulletLine(number) == [k |-> "txt", ver |-> <<>>, tag |-> " * ", n |-> number]

securityFixHeader == TextLine("## SECURITY FIXES")

breakingChangeHeader == TextLine("## BREAKING CHANGES")

featureChangeHeader == TextLine("## Features")

bugFixChangeHeader == TextLine("## Bug Fixes")

\* the date makeChangelogEntry renders: new Date() of the run
Today == "today"

File(lines) == [exists |-> TRUE, lines |-> lines]

NoFile == [exists |-> FALSE, lines |-> <<>>]

changelogFile == "CHANGELOG.md"

\* rewriting CHANGELOG.md in place
tmpFile_InPlace == "CHANGELOG.md"

tmpFile == "CHANGELOG.tmp"

Paths == {changelogFile, tmpFile}

\* /^Changes in \[([\d.]+)\]/.exec(line)
HeaderMatches(line) ==
    /\ line.k = "hdr"
    /\ line.ver # <<>>
    /\ \A i \in 1..Len(line.ver) : IsDigit(line.ver[i]) \/ line.ver[i] = "."

RECURSIVE readChangelogFrom(_, _, _, _)
readChangelogFrom(lines, hasVersion, ver, fullText) ==
    LET yielded == IF hasVersion THEN <<[version |-> ver, text |-> fullText]>> ELSE <<>>
    IN  IF lines = <<>> THEN yielded
        ELSE IF HeaderMatches(Head(lines))
        THEN yielded \o readChangelogFrom(Tail(lines), TRUE,
                                          <<"v">> \o Head(lines).ver, <<Head(lines)>>)
        ELSE readChangelogFrom(Tail(lines), hasVersion, ver,
                               IF hasVersion THEN Append(fullText, Head(lines))
                               ELSE fullText)

\* the entries readChangelog yields for a CHANGELOG.md of these lines
readChangelog(lines) == readChangelogFrom(lines, FALSE, <<>>, <<>>)

\* makeChangeEntry: the bullet of one change
makeChangeEntry(c) == BulletLine(c.number)

\* one category block of makeChangelogEntry: nothing when it has no change
CategoryBlock(header, cs) ==
    IF cs = <<>> THEN <<>>
    ELSE <<header>> \o [i \in 1..Len(cs) |-> makeChangeEntry(cs[i])] \o <<TextLine("")>>

IsIncluded(c) == c.shouldInclude

IsBreaking(c) == c.breaking

IsSecurity(c) == c.security

IsOther(c) == ~c.breaking /\ ~c.security

IsFeature(c) == c.changeType = "FEATURE"

IsBugfix(c) == c.changeType = "BUGFIX"

\* makeChangelogEntry(changes, version, forProject): lines.join("\n"), whose
\* last element is '', so every line of the text ends in "\n"
makeChangelogEntry(chgs, ver) ==
    LET shouldInclude == SelectSeq(chgs, IsIncluded)
        others == SelectSeq(shouldInclude, IsOther)
        lines ==
            <<HeaderLine(semverFormat(semverParse(ver)), Today), TextLine("="), TextLine("")>>
            \o CategoryBlock(securityFixHeader, SelectSeq(shouldInclude, IsSecurity))
            \o CategoryBlock(breakingChangeHeader, SelectSeq(shouldInclude, IsBreaking))
            \o CategoryBlock(featureChangeHeader, SelectSeq(others, IsFeature))
            \o CategoryBlock(bugFixChangeHeader, SelectSeq(others, IsBugfix))
            \o <<TextLine("")>>
    IN  SubSeq(lines, 1, Len(lines) - 1)

isPrereleaseFor(v, forV) ==
    /\ v.prerelease # <<>>
    /\ forV.prerelease = <<>>
    /\ compareMain(v, forV) = 0

\* the loop's iteration without the changeWritten guard on an older entry
EntryStep_Unguarded(st, entry, forVersion, chgs) ==
    LET cmp == semverCompare(semverParse(forVersion), entry.version)
        new == makeChangelogEntry(chgs, forVersion)
    IN  IF cmp.threw THEN [st EXCEPT !.threw = TRUE]
        ELSE IF cmp.r = 0
        THEN [st EXCEPT !.out = st.out \o new, !.written = TRUE]
        ELSE IF cmp.r = 1
        THEN [st EXCEPT !.out = st.out \o new \o entry.text, !.written = TRUE]
        ELSE [st EXCEPT !.out = st.out \o entry.text]

\* one iteration of updateChangelog's loop over the entries: st is
\* [out: what has been written to the temporary file, written: changeWritten,
\*  threw: an exception left the loop]
EntryStep(st, entry, forVersion, chgs) ==
    LET forReleaseSemVer == semverParse(forVersion)
        cmp == semverCompare(forReleaseSemVer, entry.version)
        new == makeChangelogEntry(chgs, forVersion)
    IN  IF cmp.threw THEN [st EXCEPT !.threw = TRUE]
        ELSE IF cmp.r = 0
        THEN [st EXCEPT !.out = st.out \o new, !.written = TRUE]
        ELSE IF cmp.r = 1
        THEN [st EXCEPT !.out = st.out \o (IF ~st.written THEN new ELSE <<>>) \o entry.text,
                        !.written = TRUE]
        ELSE IF isPrereleaseFor(semverParse(entry.version), forReleaseSemVer)
        THEN [st EXCEPT !.out = st.out \o (IF ~st.written THEN new ELSE <<>>)]
        ELSE [st EXCEPT !.out = st.out \o entry.text]

\* fsProm.open(tmpFile, 'w'); the read stream on CHANGELOG.md is opened by
\* the first iteration of the loop
UC_Open ==
    /\ pc = "uc_open"
    /\ fs' = [fs EXCEPT ![tmpFile] = File(<<>>)]
    /\ changeWritten' = FALSE
    /\ IF fs'[changelogFile].exists
       THEN /\ pending' = readChangelog(fs'[changelogFile].lines)
            /\ pc' = "uc_loop"
            /\ err' = err
       ELSE /\ pending' = <<>>
            /\ pc' = "failed"
            /\ err' = "ENOENT"
    /\ UNCHANGED <<orig, version, checkMode, previewMode, changes, fromVer, toVer, branchMode, pr, change,
                   releaseCfg, mergedPrs, accum, stack, visits,
                   releases, branches,
                   mergeCommits, prMap, mergedPrInfo, pageNum, pulls>>

\* one entry of the for await loop, with the writes it makes
UC_Entry ==
    /\ pc = "uc_loop"
    /\ pending # <<>>
    /\ LET st == EntryStep([out |-> fs[tmpFile].lines, written |-> changeWritten,
                            threw |-> FALSE],
                           Head(pending), version, changes)
       IN  IF st.threw
           THEN /\ pc' = "failed"
                /\ err' = "TypeError"
                /\ UNCHANGED <<fs, changeWritten, pending>>
           ELSE /\ fs' = [fs EXCEPT ![tmpFile] = File(st.out)]
                /\ changeWritten' = st.written
                /\ pending' = Tail(pending)
                /\ UNCHANGED <<pc, err>>
    /\ UNCHANGED <<orig, version, checkMode, previewMode, changes, fromVer, toVer, branchMode, pr, change,
                   releaseCfg, mergedPrs, accum, stack, visits,
                   releases, branches,
                   mergeCommits, prMap, mergedPrInfo, pageNum, pulls>>

\* closing without the check of changeWritten
UC_Close_NoCheck ==
    /\ pc = "uc_loop"
    /\ pending = <<>>
    /\ pc' = "uc_unlink"
    /\ UNCHANGED <<fs, orig, version, checkMode, previewMode, changes, pending, changeWritten, err,
                   fromVer, toVer, branchMode, pr, change,
                   releaseCfg, mergedPrs, accum, stack, visits,
                   releases, branches,
                   mergeCommits, prMap, mergedPrInfo, pageNum, pulls>>

\* outHandle.close() and the check of changeWritten that follows it
UC_Close ==
    /\ pc = "uc_loop"
    /\ pending = <<>>
    /\ IF ~changeWritten
       THEN pc' = "failed" /\ err' = "I failed to write the change"
       ELSE pc' = "uc_unlink" /\ err' = err
    /\ UNCHANGED <<fs, orig, version, checkMode, previewMode, changes, pending, changeWritten,
                   fromVer, toVer, branchMode, pr, change,
                   releaseCfg, mergedPrs, accum, stack, visits,
                   releases, branches,
                   mergeCommits, prMap, mergedPrInfo, pageNum, pulls>>

\* fsProm.unlink(changelogFile)
UC_Unlink ==
    /\ pc = "uc_unlink"
    /\ fs' = [fs EXCEPT ![changelogFile] = NoFile]
    /\ pc' = "uc_rename"
    /\ UNCHANGED <<orig, version, checkMode, previewMode, changes, pending, changeWritten, err,
                   fromVer, toVer, branchMode, pr, change,
                   releaseCfg, mergedPrs, accum, stack, visits,
                   releases, branches,
                   mergeCommits, prMap, mergedPrInfo, pageNum, pulls>>

\* fsProm.rename(tmpFile, changelogFile)
UC_Rename ==
    /\ pc = "uc_rename"
    /\ fs' = [p \in Paths |-> IF p = changelogFile THEN fs[tmpFile] ELSE NoFile]
    /\ pc' = "done"
    /\ UNCHANGED <<orig, version, checkMode, previewMode, changes, pending, changeWritten, err,
                   fromVer, toVer, branchMode, pr, change,
                   releaseCfg, mergedPrs, accum, stack, visits,
                   releases, branches,
                   mergeCommits, prMap, mergedPrInfo, pageNum, pulls>>

updateChangelog == UC_Open \/ UC_Entry \/ UC_Close \/ UC_Unlink \/ UC_Rename

-----------------------------------------------------------------------------
(* releases.ts and main() of index.ts.  A release is [name, prerelease];   *)
(* revisions (tags, branches) are strings.                                 *)

releasesContains(rels, target) == \E i \in 1..Len(rels) : rels[i].name = target

\* the Release found, or found = FALSE for undefined
getLatestRelease(rels, considerRCs) ==
    IF considerRCs
    THEN IF rels = <<>> THEN [found |-> FALSE, name |-> <<>>]
         ELSE [found |-> TRUE, name |-> rels[1].name]
    ELSE IF \E i \in 1..Len(rels) : ~rels[i].prerelease
    THEN [found |-> TRUE,
          name |-> rels[CHOOSE i \in 1..Len(rels) :
                            /\ ~rels[i].prerelease
                            /\ \A j \in 1..(i - 1) : rels[j].prerelease].name]
    ELSE [found |-> FALSE, name |-> <<>>]

\* the release after the target, prerelease or not
getReleaseBefore_AnyRelease(rels, target, considerRCs) ==
    LET After(i) == rels[i].name # target /\ \E j \in 1..(i - 1) : rels[j].name = target
    IN  IF \E i \in 1..Len(rels) : After(i)
        THEN [found |-> TRUE,
              name |-> rels[CHOOSE i \in 1..Len(rels) :
                                After(i) /\ \A j \in 1..(i - 1) : ~After(j)].name]
        ELSE [found |-> FALSE, name |-> <<>>]

\* the Release found, or found = FALSE where the code throws
getReleaseBefore(rels, target, considerRCs) ==
    LET Eligible(i) ==
            /\ rels[i].name # target
            /\ \E j \in 1..(i - 1) : rels[j].name = target
            /\ (considerRCs \/ ~rels[i].prerelease)
    IN  IF \E i \in 1..Len(rels) : Eligible(i)
        THEN [found |-> TRUE,
              name |-> rels[CHOOSE i \in 1..Len(rels) :
                                Eligible(i) /\ \A j \in 1..(i - 1) : ~Eligible(j)].name]
        ELSE [found |-> FALSE, name |-> <<>>]

DEVELOP == <<"d", "e", "v", "e", "l", "o", "p">>

STAGING == <<"s", "t", "a", "g", "i", "n", "g">>

\* `release-v${major}.${minor}.${patch}`
releaseBranchName(v) ==
    <<"r", "e", "l", "e", "a", "s", "e", "-", "v">> \o IntToStr(v.major) \o <<".">> \o IntToStr(v.minor)
    \o <<".">> \o IntToStr(v.patch)

\* lines 126-164 of main: the range and the branch mode, for the release
\* list and the branches found
ResolveRange(ver, rels, hasReleaseBranch, hasStaging) ==
    LET target == semverParse(ver)
        targetIsPrerelease == target.prerelease # <<>>
        Range(rel, to, mode, error) ==
            IF rel.found
            THEN [threw |-> FALSE, err |-> "", fromVer |-> rel.name, toVer |-> to,
                  branchMode |-> mode]
            ELSE [threw |-> TRUE, err |-> error, fromVer |-> <<>>, toVer |-> <<>>,
                  branchMode |-> "Exact"]
    IN  IF ver = <<>>
        THEN Range(getLatestRelease(rels, FALSE), DEVELOP, "Develop", "TypeError")
        ELSE IF ~target.valid
        THEN Range([found |-> FALSE, name |-> <<>>], <<>>, "Exact", "TypeError")
        ELSE IF releasesContains(rels, ver)
        THEN Range(getReleaseBefore(rels, ver, targetIsPrerelease), ver, "Exact",
                   "Couldn't find release before")
        ELSE IF ver # DEVELOP /\ hasReleaseBranch
        THEN Range(getLatestRelease(rels, targetIsPrerelease), releaseBranchName(target),
                   "Release", "TypeError")
        ELSE IF ver # DEVELOP /\ hasStaging
        THEN Range(getLatestRelease(rels, targetIsPrerelease), STAGING, "Release",
                   "TypeError")
        ELSE Range(getLatestRelease(rels, targetIsPrerelease), DEVELOP, "Develop",
                   "TypeError")

-----------------------------------------------------------------------------
(* changes.ts: changeFromPrInfo.  A PrInfo is [title, hasBody, body,       *)
(* labels, owner, repo]: hasBody = FALSE is a null body, owner and repo    *)
(* are base.repo.owner.name and base.repo.name.                            *)

ToUpperChar(c) ==
    IF \E i \in 1..Len(LowerLetters) : LowerLetters[i] = c
    THEN UpperLetters[CHOOSE i \in 1..Len(LowerLetters) : LowerLetters[i] = c]
    ELSE c

\* String.prototype.trim
RECURSIVE TrimStart(_)
TrimStart(s) == IF s # <<>> /\ IsSpace(Head(s)) THEN TrimStart(Tail(s)) ELSE s

RECURSIVE TrimEnd(_)
TrimEnd(s) ==
    IF s # <<>> /\ IsSpace(s[Len(s)]) THEN TrimEnd(SubSeq(s, 1, Len(s) - 1)) ELSE s

Trim(s) == TrimEnd(TrimStart(s))

\* a literal of a case-insensitive regular expression (lit in lower case) at i
LitAt(s, i, lit) ==
    /\ i >= 1
    /\ i + Len(lit) - 1 <= Len(s)
    /\ toLowerCase(SubSeq(s, i, i + Len(lit) - 1)) = lit

\* [\w-]
IsNameChar(c) == IsWordChar(c) \/ c = "-"

\* where the longest run of [\w-], begun at i, ends (the index after it): a
\* greedy [\w-]*
NameRunEnd(s, i) ==
    CHOOSE j \in i..(Len(s) + 1) :
        /\ \A k \in i..(j - 1) : IsNameChar(s[k])
        /\ (j = Len(s) + 1 \/ ~IsNameChar(s[j]))

\* the same for a greedy \d*
DigitRunEnd(s, i) ==
    CHOOSE j \in i..(Len(s) + 1) :
        /\ \A k \in i..(j - 1) : IsDigit(s[k])
        /\ (j = Len(s) + 1 \/ ~IsDigit(s[j]))

\* any character but a line terminator: the . of a regular expression
IsDot(c) == c \notin {"\n", "\r"}

NOTES_MAGIC_TEXT == <<"n", "o", "t", "e", "s", ":", " ">>

HEADLINE_MAGIC_TEXT == <<"h", "e", "a", "d", "l", "i", "n", "e", "s", ":", " ">>

BREAKING_CHANGE_LABEL == "X-Breaking-Change"

\* the properties an object literal inherits from Object.prototype
ObjectPrototypeKeys ==
    {"constructor", "hasOwnProperty", "isPrototypeOf", "propertyIsEnumerable",
     "toLocaleString", "toString", "valueOf", "__proto__", "__defineGetter__",
     "__defineSetter__", "__lookupGetter__", "__lookupSetter__"}

\* labelToChangeType[label]: the ChangeType of a key of the table, "inherited"
\* for the value of a property inherited from Object.prototype (a function or
\* the prototype object, no ChangeType), "undefined" for any other label
labelToChangeType(label) ==
    CASE label = "T-Deprecation" -> "DEPRECATION"
      [] label = "T-Enhancement" -> "FEATURE"
      [] label = "T-Defect" -> "BUGFIX"
      [] label = "T-Task" -> "TASK"
      [] label \in ObjectPrototypeKeys -> "inherited"
      [] OTHER -> "undefined"

\* the verbs without their past forms
ClosingVerbs_NoPast ==
    {<<"c", "l", "o", "s", "e">>,
     <<"c", "l", "o", "s", "e", "s">>,
     <<"f", "i", "x">>,
     <<"f", "i", "x", "e", "s">>,
     <<"r", "e", "s", "o", "l", "v", "e">>,
     <<"r", "e", "s", "o", "l", "v", "e", "s">>}

\* close[sd]?|fix|fixe[sd]|resolve[sd]?
ClosingVerbs ==
    {<<"c", "l", "o", "s", "e">>,
     <<"c", "l", "o", "s", "e", "s">>,
     <<"c", "l", "o", "s", "e", "d">>,
     <<"f", "i", "x">>,
     <<"f", "i", "x", "e", "s">>,
     <<"f", "i", "x", "e", "d">>,
     <<"r", "e", "s", "o", "l", "v", "e">>,
     <<"r", "e", "s", "o", "l", "v", "e", "s">>,
     <<"r", "e", "s", "o", "l", "v", "e", "d">>}

\* (?:verb):? and the space after it, begun at i: the indices after the space
AfterVerb(s, i) ==
    {k + 1 : k \in {k \in i..Len(s) :
                       /\ s[k] = " "
                       /\ \E v \in ClosingVerbs :
                            /\ LitAt(s, i, v)
                            /\ \/ k = i + Len(v)
                               \/ k = i + Len(v) + 1 /\ s[i + Len(v)] = ":"}}

\* the result of String.prototype.match: the groups, or matched = FALSE for null
NoMatch == [matched |-> FALSE, g |-> <<>>]

Matched(groups) == [matched |-> TRUE, g |-> groups]

\* HASH_NUMBER_ISSUE_REGEXP tried at i
HashNumberAt(s, i) ==
    LET ps == {p \in AfterVerb(s, i) :
                  p <= Len(s) /\ s[p] = "#" /\ DigitRunEnd(s, p + 1) > p + 1}
    IN  IF ps = {} THEN NoMatch
        ELSE LET p == CHOOSE q \in ps : TRUE
             IN  Matched(<<SubSeq(s, p + 1, DigitRunEnd(s, p + 1) - 1)>>)

\* ([\w-]*)\/([\w-]*) begun at p: [ok, owner, repo, next], next the index
\* after the repository name
OwnerRepoAt(s, p) ==
    LET e1 == NameRunEnd(s, p)
        e2 == NameRunEnd(s, e1 + 1)
    IN  IF p <= Len(s) + 1 /\ e1 <= Len(s) /\ s[e1] = "/"
        THEN [ok |-> TRUE, owner |-> SubSeq(s, p, e1 - 1),
              repo |-> SubSeq(s, e1 + 1, e2 - 1), next |-> e2]
        ELSE [ok |-> FALSE, owner |-> <<>>, repo |-> <<>>, next |-> 0]

\* OWNER_HASH_NUMBER_ISSUE_REGEXP tried at i
OwnerHashNumberAt(s, i) ==
    LET Fits(p) ==
            LET r == OwnerRepoAt(s, p)
            IN  /\ r.ok
                /\ r.next <= Len(s)
                /\ s[r.next] = "#"
                /\ DigitRunEnd(s, r.next + 1) > r.next + 1
        ps == {p \in AfterVerb(s, i) : Fits(p)}
    IN  IF ps = {} THEN NoMatch
        ELSE LET p == CHOOSE q \in ps : TRUE
                 r == OwnerRepoAt(s, p)
             IN  Matched(<<r.owner, r.repo,
                           SubSeq(s, r.next + 1, DigitRunEnd(s, r.next + 1) - 1)>>)

\* https?:\/\/github.com\/ begun at p: the index after it, 0 if it is not
\* there; the . before com is any character
GithubPrefixEnd(s, p) ==
    LET q == IF LitAt(s, p, <<"h", "t", "t", "p", "s">>) THEN p + 5 ELSE p + 4
    IN  IF /\ LitAt(s, p, <<"h", "t", "t", "p">>)
           /\ LitAt(s, q, <<":", "/", "/", "g", "i", "t", "h", "u", "b">>)
           /\ q + 9 <= Len(s)
           /\ IsDot(s[q + 9])
           /\ LitAt(s, q + 10, <<"c", "o", "m", "/">>)
        THEN q + 14
        ELSE 0

\* ISSUE_URL_REGEXP tried at i; the number may be empty
IssueUrlAt(s, i) ==
    LET Fits(p) ==
            /\ GithubPrefixEnd(s, p) # 0
            /\ OwnerRepoAt(s, GithubPrefixEnd(s, p)).ok
            /\ LitAt(s, OwnerRepoAt(s, GithubPrefixEnd(s, p)).next, <<"/", "i", "s", "s", "u", "e", "s", "/">>)
        ps == {p \in AfterVerb(s, i) : Fits(p)}
    IN  IF ps = {} THEN NoMatch
        ELSE LET p == CHOOSE q \in ps : TRUE
                 r == OwnerRepoAt(s, GithubPrefixEnd(s, p))
                 d == r.next + 8
             IN  Matched(<<r.owner, r.repo, SubSeq(s, d, DigitRunEnd(s, d) - 1)>>)

\* where the leftmost match begins, 0 if no index is a match
FirstIndex(hits) == IF hits = {} THEN 0 ELSE CHOOSE i \in hits : \A j \in hits : i <= j

\* line.match(HASH_NUMBER_ISSUE_REGEXP): the leftmost match
HashNumberMatch(line) ==
    LET i == FirstIndex({k \in 1..Len(line) : HashNumberAt(line, k).matched})
    IN  IF i = 0 THEN NoMatch ELSE HashNumberAt(line, i)

\* line.match(OWNER_HASH_NUMBER_ISSUE_REGEXP)
OwnerHashNumberMatch(line) ==
    LET i == FirstIndex({k \in 1..Len(line) : OwnerHashNumberAt(line, k).matched})
    IN  IF i = 0 THEN NoMatch ELSE OwnerHashNumberAt(line, i)

\* line.match(ISSUE_URL_REGEXP)
IssueUrlMatch(line) ==
    LET i == FirstIndex({k \in 1..Len(line) : IssueUrlAt(line, k).matched})
    IN  IF i = 0 THEN NoMatch ELSE IssueUrlAt(line, i)

\* line.match(PROJECT_NOTES_REGEX): ^([\w-]*) notes: (.*)$
ProjectNotesMatch(line) ==
    LET e1 == NameRunEnd(line, 1)
        rest == SubSeq(line, e1 + Len(NOTES_MAGIC_TEXT) + 1, Len(line))
    IN  IF /\ LitAt(line, e1, <<" ">> \o NOTES_MAGIC_TEXT)
           /\ \A k \in 1..Len(rest) : IsDot(rest[k])
        THEN Matched(<<SubSeq(line, 1, e1 - 1), rest>>)
        ELSE NoMatch

\* a string or null
Null == [null |-> TRUE, s |-> <<>>]

Str(s) == [null |-> FALSE, s |-> s]

\* parseInt of a run of digits, NaN for the empty run
parseInt(g) == [nan |-> g = <<>>, n |-> IF g = <<>> THEN 0 ELSE DigitsToInt(g)]

IssueID(owner, repo, g) == [owner |-> owner, repo |-> repo, number |-> parseInt(g)]

\* notes left null until a notes line sets them
TitleNotes_Null(p) == Null

\* let notes = pr.title
TitleNotes(p) == Str(p.title)

\* trimmed.split(':', 2)[1].trim(), threw where [1] is undefined
AfterColon(trimmed) ==
    LET parts == Split(trimmed, ":")
    IN  IF Len(parts) < 2 THEN [threw |-> TRUE, s |-> <<>>]
        ELSE [threw |-> FALSE, s |-> Trim(parts[2])]

NoneToNull(s) == IF toLowerCase(s) = <<"n", "o", "n", "e">> THEN Null ELSE Str(s)

\* notesByProject[key] = value on an object kept as a list of its entries
SetProjectNotes(entries, key, value) ==
    IF \E i \in 1..Len(entries) : entries[i].project = key
    THEN [i \in 1..Len(entries) |->
             IF entries[i].project = key THEN [project |-> key, notes |-> value]
             ELSE entries[i]]
    ELSE Append(entries, [project |-> key, notes |-> value])

\* the changeType and the breaking flag the loop over pr.labels leaves
RECURSIVE LabelsStep(_, _)
LabelsStep(acc, labels) ==
    IF labels = <<>> THEN acc
    ELSE LET name == Head(labels)
             next == IF labelToChangeType(name) # "undefined"
                     THEN [acc EXCEPT !.changeType = labelToChangeType(name)]
                     ELSE IF name = BREAKING_CHANGE_LABEL
                     THEN [acc EXCEPT !.breaking = TRUE]
                     ELSE acc
         IN  LabelsStep(next, Tail(labels))

\* the iteration with the issue patterns tried before the notes patterns
LineStep_IssuesFirst(acc, line, p) ==
    LET trimmed == Trim(line)
        project == ProjectNotesMatch(line)
        hash == HashNumberMatch(line)
        ownerHash == OwnerHashNumberMatch(line)
        url == IssueUrlMatch(line)
    IN  IF hash.matched
        THEN [acc EXCEPT !.fixes = Append(acc.fixes, IssueID(p.owner, p.repo, hash.g[1]))]
        ELSE IF ownerHash.matched
        THEN [acc EXCEPT !.fixes =
                  Append(acc.fixes, IssueID(ownerHash.g[1], ownerHash.g[2], ownerHash.g[3]))]
        ELSE IF url.matched
        THEN [acc EXCEPT !.fixes = Append(acc.fixes, IssueID(url.g[1], url.g[2], url.g[3]))]
        ELSE IF StartsWith(toLowerCase(trimmed), NOTES_MAGIC_TEXT)
        THEN [acc EXCEPT !.notes = NoneToNull(AfterColon(trimmed).s)]
        ELSE IF StartsWith(toLowerCase(trimmed), HEADLINE_MAGIC_TEXT)
        THEN [acc EXCEPT !.headline = Str(AfterColon(trimmed).s)]
        ELSE IF project.matched
        THEN [acc EXCEPT !.notesByProject =
                  SetProjectNotes(acc.notesByProject, project.g[1],
                                  NoneToNull(Trim(project.g[2])))]
        ELSE acc

\* one iteration of the loop over the lines of the body
LineStep(acc, line, p) ==
    LET trimmed == Trim(line)
        project == ProjectNotesMatch(line)
        hash == HashNumberMatch(line)
        ownerHash == OwnerHashNumberMatch(line)
        url == IssueUrlMatch(line)
    IN  IF acc.threw THEN acc
        ELSE IF StartsWith(toLowerCase(trimmed), NOTES_MAGIC_TEXT)
        THEN IF AfterColon(trimmed).threw THEN [acc EXCEPT !.threw = TRUE]
             ELSE [acc EXCEPT !.notes = NoneToNull(AfterColon(trimmed).s)]
        ELSE IF StartsWith(toLowerCase(trimmed), HEADLINE_MAGIC_TEXT)
        THEN IF AfterColon(trimmed).threw THEN [acc EXCEPT !.threw = TRUE]
             ELSE [acc EXCEPT !.headline = Str(AfterColon(trimmed).s)]
        ELSE IF project.matched
        THEN [acc EXCEPT !.notesByProject =
                  SetProjectNotes(acc.notesByProject, project.g[1],
                                  NoneToNull(Trim(project.g[2])))]
        ELSE IF hash.matched
        THEN [acc EXCEPT !.fixes = Append(acc.fixes, IssueID(p.owner, p.repo, hash.g[1]))]
        ELSE IF ownerHash.matched
        THEN [acc EXCEPT !.fixes =
                  Append(acc.fixes, IssueID(ownerHash.g[1], ownerHash.g[2], ownerHash.g[3]))]
        ELSE IF url.matched
        THEN [acc EXCEPT !.fixes = Append(acc.fixes, IssueID(url.g[1], url.g[2], url.g[3]))]
        ELSE acc

RECURSIVE LinesStep(_, _, _)
LinesStep(acc, lines, p) ==
    IF lines = <<>> THEN acc ELSE LinesStep(LineStep(acc, Head(lines), p), Tail(lines), p)

\* the IChange returned, threw = TRUE where the function throws instead
changeFromPrInfo(p) ==
    LET start == [threw |-> FALSE, notes |-> TitleNotes(p), headline |-> Null,
                  notesByProject |-> <<>>, fixes |-> <<>>, changeType |-> "null",
                  breaking |-> FALSE, security |-> FALSE]
        labelled == LabelsStep(start, p.labels)
    IN  IF p.hasBody /\ p.body # <<>>
        THEN LinesStep(labelled, Split(p.body, "\n"), p)
        ELSE labelled

\* a call of changeFromPrInfo on the PR at hand
Classify ==
    /\ pc = "classify"
    /\ change' = changeFromPrInfo(pr)
    /\ pc' = IF change'.threw THEN "failed" ELSE "classified"
    /\ UNCHANGED <<fs, orig, version, checkMode, previewMode, changes, pending, changeWritten, err,
                   fromVer, toVer, branchMode, pr,
                   releaseCfg, mergedPrs, accum, stack, visits,
                   releases, branches,
                   mergeCommits, prMap, mergedPrInfo, pageNum, pulls>>

-----------------------------------------------------------------------------
(* projects.ts: the walk of the project graph.  A project is known by its  *)
(* name; a subproject entry of a release config is [name, includeByDefault,*)
(* mirrorVersion, pinFrom, pinTo], the pins being what package.json of the *)
(* parent holds for the subproject at the parent's fromVer and toVer.      *)

\* notesByProject[projectName]: [defined, value]
ProjectNotesOf(c, projectName) ==
    IF \E i \in 1..Len(c.notesByProject) : c.notesByProject[i].project = projectName
    THEN [defined |-> TRUE,
          value |-> c.notesByProject[CHOOSE i \in 1..Len(c.notesByProject) :
                                         c.notesByProject[i].project = projectName].notes]
    ELSE [defined |-> FALSE, value |-> Null]

\* the notes without the gate on the type of the change
getChangeNotes_NoTypeGate(c, projectName) ==
    IF ProjectNotesOf(c, projectName).defined
    THEN ProjectNotesOf(c, projectName).value
    ELSE c.notes

getChangeNotes(c, projectName) ==
    IF c.changeType \in {"TASK", "null"} THEN Null
    ELSE IF ProjectNotesOf(c, projectName).defined
    THEN ProjectNotesOf(c, projectName).value
    ELSE c.notes

\* if (x): a string that is neither undefined, null nor empty
IsTruthy(n) == n.defined /\ ~n.value.null /\ n.value.s # <<>>

\* inclusion that ignores a note addressed to the project
shouldIncludeChange_NoOverride(forProject, c, includeByDefault) ==
    IF getChangeNotes(c, forProject) = Null THEN FALSE ELSE includeByDefault

shouldIncludeChange(forProject, c, includeByDefault) ==
    IF getChangeNotes(c, forProject) = Null THEN FALSE
    ELSE IF IsTruthy(ProjectNotesOf(c, forProject)) THEN TRUE
    ELSE includeByDefault

\* a revision computed for a subproject, threw where the code throws
Revision(s) == [threw |-> FALSE, err |-> "", v |-> s]

NoRevision(error) == [threw |-> TRUE, err |-> error, v |-> <<>>]

parseDepVersion(ver) ==
    IF ver = <<>> \/ ~IsDigit(ver[1]) THEN NoRevision("is not exact!")
    ELSE Revision(<<"v">> \o ver)

\* getDepVersion that takes the pin literally in every mode
getDepVersion_Literal(ver, mode) == parseDepVersion(ver)

getDepVersion(ver, mode) ==
    IF mode = "Develop" THEN Revision(DEVELOP)
    ELSE IF mode = "Release"
    THEN IF semverParse(ver).valid THEN Revision(releaseBranchName(semverParse(ver)))
         ELSE NoRevision("TypeError")
    ELSE parseDepVersion(ver)

\* c => { c.shouldInclude = this.shouldIncludeChange(...); return c }, on the
\* change of PR number
WithShouldInclude(c, number, forProject, includeByDefault) ==
    [number |-> number, notes |-> c.notes, headline |-> c.headline,
     notesByProject |-> c.notesByProject, fixes |-> c.fixes,
     changeType |-> c.changeType, breaking |-> c.breaking, security |-> c.security,
     shouldInclude |-> shouldIncludeChange(forProject, c, includeByDefault)]

\* one element of prInfo.map(changeFromPrInfo).map(c => ...)
ClassifiedChange(p, forProject, includeByDefault) ==
    WithShouldInclude(changeFromPrInfo(p.info), p.number, forProject, includeByDefault)

ClassifiedChanges(prs, forProject, includeByDefault) ==
    IF prs = <<>> THEN <<>>
    ELSE [i \in 1..Len(prs) |-> ClassifiedChange(prs[i], forProject, includeByDefault)]

\* a guard that never finds the project
HasChanges_Never(acc, name) == FALSE

\* a guard that takes a project without changes as not yet visited
HasChanges_NonEmpty(acc, name) ==
    \E i \in 1..Len(acc) : acc[i].name = name /\ acc[i].changes # <<>>

\* changes[name] !== undefined, on the accumulator kept as the list of its
\* entries [name, changes] in insertion order
HasChanges(acc, name) == \E i \in 1..Len(acc) : acc[i].name = name

\* changes[name]
ChangesOf(acc, name) ==
    IF HasChanges(acc, name)
    THEN acc[CHOOSE i \in 1..Len(acc) : acc[i].name = name].changes
    ELSE <<>>

\* [].concat(...Object.values(changes))
AllChanges(acc) ==
    IF acc = <<>> THEN <<>> ELSE Flatten([i \in 1..Len(acc) |-> acc[i].changes])

\* a call of collectChanges: next = 0 before the guard, else the index of the
\* subproject the loop comes to
Call(name, from, to, forProject, includeByDefault) ==
    [name |-> name, fromVer |-> from, toVer |-> to, forProject |-> forProject,
     includeByDefault |-> includeByDefault, next |-> 0]

-----------------------------------------------------------------------------
(* The inputs of the specifications.                                        *)

V100 == <<"1", ".", "0", ".", "0">>

V110 == <<"1", ".", "1", ".", "0">>

V120 == <<"1", ".", "2", ".", "0">>

V130 == <<"1", ".", "3", ".", "0">>

V120rc1 == <<"1", ".", "2", ".", "0", "-", "r", "c", ".", "1">>

V120rc2 == <<"1", ".", "2", ".", "0", "-", "r", "c", ".", "2">>

\* "1.2": the header pattern accepts it, semver does not
V12 == <<"1", ".", "2">>

\* header lines of earlier runs, and one line of other text
LineAlphabet ==
    {HeaderLine(v, "earlier") : v \in {V100, V110, V120, V130, V120rc1, V12}}
    \cup {TextLine("text")}

Documents == UNION {[1..n -> LineAlphabet] : n \in 0..MaxLines}

MainDocuments == UNION {[1..n -> LineAlphabet] : n \in 0..MaxMainLines}

Release(ver) == [name |-> <<"v">> \o ver, prerelease |-> semverParse(ver).prerelease # <<>>]

ReleaseLists ==
    UNION {[1..n -> {Release(V110), Release(V120rc1), Release(V120), Release(V120rc2)}] :
              n \in 0..MaxReleases}

ForVersions == {<<"v">> \o V120, <<"v">> \o V120rc2}

NoChange == [number |-> 0, changeType |-> "null", breaking |-> FALSE,
             security |-> FALSE, shouldInclude |-> FALSE]

ChangeLists ==
    {<<>>,
     <<[NoChange EXCEPT !.number = 7, !.changeType = "FEATURE", !.shouldInclude = TRUE]>>}

NoRev == <<>>

\* the pull requests changeFromPrInfo is called on
Capitalize(s) == <<ToUpperChar(Head(s))>> \o Tail(s)

\* the verbs a body line closes an issue with
VerbWords ==
    {<<"c", "l", "o", "s", "e">>,
     <<"c", "l", "o", "s", "e", "s">>,
     <<"c", "l", "o", "s", "e", "d">>,
     <<"f", "i", "x">>,
     <<"f", "i", "x", "e", "s">>,
     <<"f", "i", "x", "e", "d">>,
     <<"r", "e", "s", "o", "l", "v", "e">>,
     <<"r", "e", "s", "o", "l", "v", "e", "s">>,
     <<"r", "e", "s", "o", "l", "v", "e", "d">>}

VerbSpellings == VerbWords \cup {Capitalize(v) : v \in VerbWords}

PrOwner == <<"t", "h", "i", "n", "g", "t", "r", "a", "n", "s", "f", "o", "r", "m", "e", "r">>

PrRepo == <<"b", "e", "r", "t">>

RefOwner == <<"m", "a", "t", "r", "i", "x", "-", "o", "r", "g">>

RefRepo == <<"a", "l", "l", "c", "h", "a", "n", "g", "e">>

IssueDigits == <<"1", "2", "3">>

RefForms == {"#", "owner/repo#", "http", "https"}

RefText(form) ==
    CASE form = "#" -> <<"#">> \o IssueDigits
      [] form = "owner/repo#" -> RefOwner \o <<"/">> \o RefRepo \o <<"#">> \o IssueDigits
      [] form = "http" -> <<"h", "t", "t", "p", ":", "/", "/", "g", "i", "t", "h", "u", "b", ".", "c", "o", "m", "/">> \o RefOwner \o <<"/">> \o RefRepo
                          \o <<"/", "i", "s", "s", "u", "e", "s", "/">> \o IssueDigits
      [] form = "https" -> <<"h", "t", "t", "p", "s", ":", "/", "/", "g", "i", "t", "h", "u", "b", ".", "c", "o", "m", "/">> \o RefOwner \o <<"/">> \o RefRepo
                           \o <<"/", "i", "s", "s", "u", "e", "s", "/">> \o IssueDigits

FixLine(verb, colon, form) ==
    verb \o (IF colon THEN <<":">> ELSE <<>>) \o <<" ">> \o RefText(form)

FixLines == {FixLine(v, c, f) : v \in VerbSpellings, c \in BOOLEAN, f \in RefForms}

OtherLines ==
    {<<>>,
     <<"S", "o", "m", "e", " ", "t", "e", "x", "t">>,
     <<"n", "o", "t", "e", "s", ":", " ", "n", "o", "n", "e">>,
     <<" ", "N", "o", "t", "e", "s", ":", " ", "A", " ", "n", "o", "t", "e", "\r">>,
     <<"h", "e", "a", "d", "l", "i", "n", "e", "s", ":", " ", "B", "i", "g">>,
     <<"p", "r", "o", "j", " ", "n", "o", "t", "e", "s", ":", " ", "F", "o", "r", " ", "p", "r", "o", "j">>,
     <<"n", "o", "t", "e", "s", ":">>,
     <<"f", "i", "x", "e", "s", " ", "#">>,
     <<"F", "i", "x", "e", "s", " ", "h", "t", "t", "p", "s", ":", "/", "/", "g", "i", "t", "h", "u", "b", ".", "c", "o", "m", "/", "o", "/", "r", "/", "i", "s", "s", "u", "e", "s", "/">>,
     <<"p", "r", "e", "f", "i", "x", "e", "s", " ", "#", "1", "2">>,
     <<"n", "o", "t", "e", "s", ":", " ", "a", ":", "b">>,
     <<"s", "e", "e", " ", "o", "w", "n", "e", "r", "/", "r", "e", "p", "o", "#", "4">>}

RECURSIVE JoinLines(_)
JoinLines(ls) ==
    IF ls = <<>> THEN <<>>
    ELSE IF Len(ls) = 1 THEN ls[1]
    ELSE ls[1] \o <<"\n">> \o JoinLines(Tail(ls))

\* lines that set the notes or the headline: a magic text in some letter
\* case and a value
NotesPrefixes == {<<"n", "o", "t", "e", "s", ":", " ">>, <<"N", "o", "t", "e", "s", ":", " ">>, <<"N", "O", "T", "E", "S", ":", " ">>}

HeadlinePrefixes == {<<"h", "e", "a", "d", "l", "i", "n", "e", "s", ":", " ">>, <<"H", "e", "a", "d", "l", "i", "n", "e", "s", ":", " ">>}

NoteValues ==
    {<<"n", "o", "n", "e">>,
     <<"N", "o", "n", "e">>,
     <<"N", "O", "N", "E">>,
     <<"s", "o", "m", "e", "t", "h", "i", "n", "g">>,
     <<"F", "i", "x", " ", "a", " ", "c", "r", "a", "s", "h", ":", " ", "o", "n", " ", "s", "t", "a", "r", "t">>}

NoteLines ==
    {p \o v : p \in NotesPrefixes \cup HeadlinePrefixes, v \in NoteValues}

\* lines that more than one pattern matches
OverlapLines ==
    {<<"n", "o", "t", "e", "s", ":", " ", "f", "i", "x", "e", "s", " ", "#", "1", "2", "3">>,
     <<"p", "r", "o", "j", " ", "n", "o", "t", "e", "s", ":", " ", "c", "l", "o", "s", "e", "s", " ", "#", "5">>,
     <<"h", "e", "a", "d", "l", "i", "n", "e", "s", ":", " ", "n", "o", "t", "e", "s", ":", " ", "f", "i", "x", "e", "s", " ", "#", "1", "2", "3">>,
     <<"p", "r", "o", "j", " ", "n", "o", "t", "e", "s", ":", " ", "f", "i", "x", "e", "s", " ", "m", "a", "t", "r", "i", "x", "-", "o", "r", "g", "/", "a", "l", "l", "c", "h", "a", "n", "g", "e", "#", "5">>,
     <<"F", "i", "x", "e", "s", " ", "m", "a", "t", "r", "i", "x", "-", "o", "r", "g", "/", "a", "l", "l", "c", "h", "a", "n", "g", "e", "#", "5", " ", "a", "n", "d", " ", "f", "i", "x", "e", "s", " ", "#", "1", "2", "3">>,
     <<"f", "i", "x", "e", "s", " ", "h", "t", "t", "p", "s", ":", "/", "/", "g", "i", "t", "h", "u", "b", ".", "c", "o", "m", "/", "m", "a", "t", "r", "i", "x", "-", "o", "r", "g", "/", "a", "l", "l", "c", "h", "a", "n", "g", "e", "/", "i", "s", "s", "u", "e", "s", "/", "5", " ", "f", "i", "x", "e", "s", " ", "m", "a", "t", "r", "i", "x", "-", "o", "r", "g", "/", "a", "l", "l", "c", "h", "a", "n", "g", "e", "#", "1", "2", "3">>}

\* two issue references on one line, and the same reference on two lines
TwoRefsLine == <<"f", "i", "x", "e", "s", " ", "#", "1", " ", "a", "n", "d", " ", "c", "l", "o", "s", "e", "s", " ", "a", "/", "b", "#", "2">>

SameRefTwice == <<"f", "i", "x", "e", "s", " ", "#", "1", "\n", "f", "i", "x", "e", "s", " ", "#", "1">>

Bodies ==
    FixLines \cup NoteLines \cup OverlapLines \cup {TwoRefsLine, SameRefTwice}
    \cup {JoinLines(ls) : ls \in UNION {[1..n -> OtherLines] : n \in 0..MaxBodyLines}}

LabelLists ==
    {<<>>, <<"T-Enhancement">>, <<"T-Defect">>, <<"T-Task">>, <<"T-Deprecation">>,
     <<"X-Breaking-Change">>, <<"T-Enhancement", "X-Breaking-Change">>,
     <<"T-Defect", "T-Task">>, <<"Z-Community-PR">>, <<"constructor">>,
     <<"Z-Community-PR", "T-Defect">>}

\* the bodies the label lists are combined with
LabelBodies == {<<>>, <<"S", "o", "m", "e", " ", "t", "e", "x", "t">>}

PrInfos ==
    {[title |-> <<"A", " ", "c", "h", "a", "n", "g", "e">>, hasBody |-> h, body |-> b, labels |-> l,
      owner |-> PrOwner, repo |-> PrRepo] :
        h \in BOOLEAN, b \in Bodies, l \in LabelLists}

\* the projects, their release configs and their merged PRs
P == <<"P">>

S == <<"S">>

T == <<"T">>

ProjectNames == {P, S, T}

ExactPin == <<"1", ".", "2", ".", "3">>

Sub(name, includeByDefault, mirrorVersion, pin) ==
    [name |-> name, includeByDefault |-> includeByDefault, mirrorVersion |-> mirrorVersion,
     pinFrom |-> pin, pinTo |-> pin]

\* the exact version a later package.json depends on
LaterPin == <<"1", ".", "3", ".", "0", "-", "r", "c", ".", "1">>

Pins ==
    {ExactPin, LaterPin, <<"^", "1", ".", "2", ".", "3">>, <<"l", "a", "t", "e", "s", "t">>,
     <<"1", ".", "x">>}

\* getDepVersion over the pins and the branch modes of the model
DepVersions ==
    [pin \in Pins |-> [mode \in {"Exact", "Release", "Develop"} |-> getDepVersion(pin, mode)]]

\* the range collectChanges recurses with for a subproject
SubprojectRange(sub, from, to, mode) ==
    IF sub.mirrorVersion THEN [from |-> Revision(from), to |-> Revision(to)]
    ELSE [from |-> parseDepVersion(sub.pinFrom), to |-> DepVersions[sub.pinTo][mode]]

\* the subproject lists of P, of S and of T
SubprojectsOfP ==
    {<<>>,
     <<Sub(S, TRUE, FALSE, ExactPin)>>,
     <<Sub(S, FALSE, TRUE, ExactPin)>>,
     <<Sub(S, FALSE, FALSE, ExactPin), Sub(T, TRUE, FALSE, ExactPin)>>,
     <<Sub(S, TRUE, FALSE, ExactPin), Sub(T, FALSE, FALSE, ExactPin)>>,
     <<Sub(S, FALSE, FALSE, ExactPin), [Sub(T, TRUE, FALSE, ExactPin) EXCEPT !.pinTo = LaterPin]>>}
    \cup {<<Sub(S, TRUE, FALSE, pin)>> : pin \in Pins \ {LaterPin}}
    \cup {<<[Sub(S, TRUE, FALSE, ExactPin) EXCEPT !.pinTo = LaterPin]>>}

SubprojectsOfS ==
    {<<>>,
     <<Sub(P, TRUE, FALSE, ExactPin)>>,
     <<Sub(T, TRUE, FALSE, ExactPin)>>,
     <<Sub(T, FALSE, TRUE, ExactPin)>>}

SubprojectsOfT ==
    {<<>>, <<Sub(S, TRUE, FALSE, ExactPin)>>, <<Sub(T, TRUE, FALSE, ExactPin)>>}

ReleaseConfigs ==
    {[n \in ProjectNames |-> IF n = P THEN p ELSE IF n = S THEN s ELSE u] :
        p \in SubprojectsOfP, s \in SubprojectsOfS, u \in SubprojectsOfT}

NoReleaseCfg == [n \in ProjectNames |-> <<>>]

NoChanges == <<>>

NoVisits == [n \in ProjectNames |-> 0]

CollectBodies ==
    {<<>>,
     <<"n", "o", "t", "e", "s", ":", " ", "n", "o", "n", "e">>,
     <<"P", " ", "n", "o", "t", "e", "s", ":", " ", "d", "o", "e", "s", " ", "a", " ", "t", "h", "i", "n", "g">>,
     <<"S", " ", "n", "o", "t", "e", "s", ":", " ", "d", "o", "e", "s", " ", "a", " ", "t", "h", "i", "n", "g">>,
     <<"P", " ", "n", "o", "t", "e", "s", ":", " ", "n", "o", "n", "e">>,
     <<"P", " ", "n", "o", "t", "e", "s", ":", " ">>,
     JoinLines(<<<<"n", "o", "t", "e", "s", ":", " ", "n", "o", "n", "e">>, <<"P", " ", "n", "o", "t", "e", "s", ":", " ", "d", "o", "e", "s", " ", "a", " ", "t", "h", "i", "n", "g">>>>)}

CollectLabels ==
    {<<>>, <<"T-Enhancement">>, <<"T-Defect">>, <<"T-Task">>, <<"X-Breaking-Change">>,
     <<"T-Defect", "X-Breaking-Change">>, <<"T-Deprecation">>,
     <<"constructor", "X-Breaking-Change">>}

CollectPrs ==
    {[number |-> 7,
      info |-> [title |-> <<"A", " ", "c", "h", "a", "n", "g", "e">>, hasBody |-> b # <<>>, body |-> b, labels |-> l,
                owner |-> PrOwner, repo |-> PrRepo]] :
        b \in CollectBodies, l \in CollectLabels}

MergedPrLists == {<<>>} \cup {<<p>> : p \in CollectPrs}

NoPr == [title |-> <<>>, hasBody |-> FALSE, body |-> <<>>, labels |-> <<>>,
         owner |-> <<>>, repo |-> <<>>]

NoResult == [threw |-> FALSE, notes |-> Null, headline |-> Null, notesByProject |-> <<>>,
             fixes |-> <<>>, changeType |-> "null", breaking |-> FALSE, security |-> FALSE]

Init ==
    /\ pc = "uc_open"
    /\ \E doc \in Documents :
         /\ fs = [p \in Paths |-> IF p = changelogFile THEN File(doc) ELSE NoFile]
         /\ orig = File(doc)
    /\ version \in ForVersions
    /\ checkMode = FALSE
    /\ previewMode = FALSE
    /\ changes \in ChangeLists
    /\ pending = <<>>
    /\ changeWritten = FALSE
    /\ err = ""
    /\ fromVer = NoRev
    /\ toVer = NoRev
    /\ branchMode = "Exact"
    /\ releaseCfg = NoReleaseCfg
    /\ mergedPrs = <<>>
    /\ accum = NoChanges
    /\ stack = <<>>
    /\ visits = NoVisits
    /\ releases = <<>>
    /\ branches = {}
    /\ mergeCommits = <<>>
    /\ prMap = {}
    /\ mergedPrInfo = <<>>
    /\ pageNum = 1
    /\ pulls = <<>>
    /\ pr = NoPr
    /\ change = NoResult

Next == updateChangelog

Spec == Init /\ [][Next]_vars

\* "No version specified": main returns at once; else it reads the project
\* (package.json, the git remote), which may fail
M_Start ==
    /\ pc = "main_start"
    /\ IF version = <<>> /\ ~checkMode /\ ~previewMode
       THEN pc' = "done" /\ err' = err
       ELSE \E found \in BOOLEAN :
                IF found THEN pc' = "main_resolve" /\ err' = err
                ELSE pc' = "failed" /\ err' = "ENOENT"
    /\ UNCHANGED <<fs, orig, version, checkMode, previewMode, changes, pending, changeWritten,
                   fromVer, toVer, branchMode, pr, change,
                   releaseCfg, mergedPrs, accum, stack, visits,
                   releases, branches,
                   mergeCommits, prMap, mergedPrInfo, pageNum, pulls>>

\* getReleases and the resolution of the range; the release list and the
\* branches are what the remote and the checkout hold
M_Resolve ==
    /\ pc = "main_resolve"
    /\ \E rels \in ReleaseLists, hasReleaseBranch \in BOOLEAN, hasStaging \in BOOLEAN,
          fetched \in BOOLEAN :
         LET r == ResolveRange(version, rels, hasReleaseBranch, hasStaging)
         IN  IF ~fetched
             THEN /\ pc' = "failed"
                  /\ err' = "HttpError"
                  /\ UNCHANGED <<fromVer, toVer, branchMode>>
             ELSE IF r.threw
             THEN /\ pc' = "failed"
                  /\ err' = r.err
                  /\ UNCHANGED <<fromVer, toVer, branchMode>>
             ELSE /\ pc' = "main_collect"
                  /\ fromVer' = r.fromVer
                  /\ toVer' = r.toVer
                  /\ branchMode' = r.branchMode
                  /\ err' = err
    /\ UNCHANGED <<fs, orig, version, checkMode, previewMode, changes, pending, changeWritten, pr, change,
                   releaseCfg, mergedPrs, accum, stack, visits,
                   releases, branches,
                   mergeCommits, prMap, mergedPrInfo, pageNum, pulls>>

\* project.collectChanges: the walk fails on a dependency pin that is not
\* exact or on PRs it cannot fetch, else it leaves the changes; --check
\* and --preview print them and return
M_Collect ==
    /\ pc = "main_collect"
    /\ \E outcome \in {"ok", "is not exact!", "Couldn't find all PRs"}, chgs \in ChangeLists :
         IF outcome = "ok"
         THEN /\ changes' = chgs
              /\ pc' = IF checkMode \/ previewMode THEN "done" ELSE "uc_open"
              /\ err' = err
         ELSE /\ pc' = "failed"
              /\ err' = outcome
              /\ changes' = changes
    /\ UNCHANGED <<fs, orig, version, checkMode, previewMode, pending, changeWritten,
                   fromVer, toVer, branchMode, pr, change,
                   releaseCfg, mergedPrs, accum, stack, visits,
                   releases, branches,
                   mergeCommits, prMap, mergedPrInfo, pageNum, pulls>>

main == M_Start \/ M_Resolve \/ M_Collect \/ updateChangelog

\* a run of main in a project directory
InitMain ==
    /\ pc = "main_start"
    /\ \E doc \in MainDocuments :
         /\ fs = [p \in Paths |-> IF p = changelogFile THEN File(doc) ELSE NoFile]
         /\ orig = File(doc)
    /\ version \in ForVersions \cup {<<>>}
    /\ checkMode \in BOOLEAN
    /\ previewMode \in BOOLEAN
    /\ ~(checkMode /\ previewMode)
    /\ changes = <<>>
    /\ pending = <<>>
    /\ changeWritten = FALSE
    /\ err = ""
    /\ fromVer = NoRev
    /\ toVer = NoRev
    /\ branchMode = "Exact"
    /\ releaseCfg = NoReleaseCfg
    /\ mergedPrs = <<>>
    /\ accum = NoChanges
    /\ stack = <<>>
    /\ visits = NoVisits
    /\ releases = <<>>
    /\ branches = {}
    /\ mergeCommits = <<>>
    /\ prMap = {}
    /\ mergedPrInfo = <<>>
    /\ pageNum = 1
    /\ pulls = <<>>
    /\ pr = NoPr
    /\ change = NoResult

NextMain == main

SpecMain == InitMain /\ [][NextMain]_vars

\* the branches branchExists can find in the checkout
BranchNames == {releaseBranchName(semverParse(V120)), STAGING}

\* args.version: final and prerelease versions, 'develop', or none
ResolveVersions ==
    {<<"v">> \o V120, <<"v">> \o V120rc2, <<"v">> \o V110, DEVELOP, <<>>}

\* lines 126-164 of main on the release list and the branches found
R_Resolve ==
    /\ pc = "resolve"
    /\ LET target == semverParse(version)
           r == ResolveRange(version, releases,
                             target.valid /\ releaseBranchName(target) \in branches,
                             STAGING \in branches)
       IN  IF r.threw
           THEN /\ pc' = "failed"
                /\ err' = r.err
                /\ UNCHANGED <<fromVer, toVer, branchMode>>
           ELSE /\ pc' = "resolved"
                /\ fromVer' = r.fromVer
                /\ toVer' = r.toVer
                /\ branchMode' = r.branchMode
                /\ err' = err
    /\ UNCHANGED <<fs, orig, version, checkMode, previewMode, changes, pending, changeWritten,
                   pr, change, releaseCfg, mergedPrs, accum, stack, visits, releases, branches,
                   mergeCommits, prMap, mergedPrInfo, pageNum, pulls>>

\* the range resolution of main, for a target, a release list and branches
InitResolve ==
    /\ pc = "resolve"
    /\ version \in ResolveVersions
    /\ releases \in ReleaseLists
    /\ branches \in SUBSET BranchNames
    /\ mergeCommits = <<>>
    /\ prMap = {}
    /\ mergedPrInfo = <<>>
    /\ pageNum = 1
    /\ pulls = <<>>
    /\ fs = [p \in Paths |-> NoFile]
    /\ orig = NoFile
    /\ checkMode = FALSE
    /\ previewMode = FALSE
    /\ changes = <<>>
    /\ pending = <<>>
    /\ changeWritten = FALSE
    /\ err = ""
    /\ fromVer = NoRev
    /\ toVer = NoRev
    /\ branchMode = "Exact"
    /\ releaseCfg = NoReleaseCfg
    /\ mergedPrs = <<>>
    /\ accum = NoChanges
    /\ stack = <<>>
    /\ visits = NoVisits
    /\ pr = NoPr
    /\ change = NoResult

NextResolve == R_Resolve

SpecResolve == InitResolve /\ [][NextResolve]_vars

\* a merge commit found by getMergedPrs, a PR of the GitHub API
MergeCommit(n, sha) == [PrNumber |-> n, sha |-> sha]

Pull(n, sha) == [number |-> n, merge_commit_sha |-> sha]

\* commit ids
Shas == {"aaa", "bbb"}

\* the results of getMergedPrs: a PR number may come up for two commits
MergeCommitLists ==
    {<<>>,
     <<MergeCommit(1, "aaa")>>,
     <<MergeCommit(1, "aaa"), MergeCommit(2, "aaa")>>,
     <<MergeCommit(2, "bbb"), MergeCommit(1, "aaa")>>,
     <<MergeCommit(1, "aaa"), MergeCommit(2, "aaa"), MergeCommit(3, "bbb")>>,
     <<MergeCommit(1, "aaa"), MergeCommit(1, "bbb")>>,
     <<MergeCommit(1, "aaa"), MergeCommit(2, "bbb"), MergeCommit(1, "bbb")>>}

\* pages of the listing: PRs asked for and others, with the merge commit
\* of the walk or another one, a PR twice on a page
PullPages ==
    {<<>>,
     <<Pull(1, "aaa")>>,
     <<Pull(1, "bbb")>>,
     <<Pull(2, "aaa"), Pull(1, "aaa")>>,
     <<Pull(4, "aaa"), Pull(2, "bbb")>>,
     <<Pull(1, "bbb"), Pull(1, "aaa")>>,
     <<Pull(3, "bbb"), Pull(3, "bbb")>>}

PullListings == UNION {[1..n -> PullPages] : n \in 0..MaxPages}

\* prMap.set(number, sha)
MapSet(map, number, sha) ==
    {e \in map : e.number # number} \cup {[number |-> number, sha |-> sha]}

\* prMap.has(number)
MapHas(map, number) == \E e \in map : e.number = number

\* prMap.delete(number)
MapDelete(map, number) == {e \in map : e.number # number}

\* for (const c of mergeCommits) prMap.set(c.PrNumber, c.sha)
RECURSIVE MapOfCommits(_, _)
MapOfCommits(commits, map) ==
    IF commits = <<>> THEN map
    ELSE MapOfCommits(Tail(commits), MapSet(map, Head(commits).PrNumber, Head(commits).sha))

\* checkAndAddPrInfo that accepts whatever merge commit the PR records
checkAndAddPrInfo_AnySha(prInfo, map, found) ==
    [prMap |-> MapDelete(map, prInfo.number), mergedPrInfo |-> Append(found, prInfo)]

\* checkAndAddPrInfo: the PR is kept if its merge commit is the one of the
\* map, and its number leaves the map
checkAndAddPrInfo(prInfo, map, found) ==
    [prMap |-> MapDelete(map, prInfo.number),
     mergedPrInfo |-> IF [number |-> prInfo.number, sha |-> prInfo.merge_commit_sha] \in map
                      THEN Append(found, prInfo)
                      ELSE found]

\* for (const pr of prListResp.data) if (prMap.has(pr.number)) checkAndAddPrInfo(pr)
RECURSIVE AddPage(_, _, _)
AddPage(page, map, found) ==
    IF page = <<>> THEN [prMap |-> map, mergedPrInfo |-> found]
    ELSE IF MapHas(map, Head(page).number)
    THEN AddPage(Tail(page), checkAndAddPrInfo(Head(page), map, found).prMap,
                 checkAndAddPrInfo(Head(page), map, found).mergedPrInfo)
    ELSE AddPage(Tail(page), map, found)

\* the start of getPrInfo: the map of the merge commits
GP_Start ==
    /\ pc = "prinfo_start"
    /\ prMap' = MapOfCommits(mergeCommits, {})
    /\ mergedPrInfo' = <<>>
    /\ pageNum' = 1
    /\ pc' = "prinfo_loop"
    /\ UNCHANGED <<fs, orig, version, checkMode, previewMode, changes, pending, changeWritten,
                   err, fromVer, toVer, branchMode, pr, change, releaseCfg, mergedPrs, accum,
                   stack, visits, releases, branches, mergeCommits, pulls>>

\* the loop is over: all PRs were found, or the function throws
GP_Return ==
    /\ pc = "prinfo_loop"
    /\ prMap = {}
    /\ pc' = "prinfo_done"
    /\ UNCHANGED <<fs, orig, version, checkMode, previewMode, changes, pending, changeWritten,
                   err, fromVer, toVer, branchMode, pr, change, releaseCfg, mergedPrs, accum,
                   stack, visits, releases, branches, mergeCommits, prMap, mergedPrInfo,
                   pageNum, pulls>>

\* one PR is left: octo.pulls.get answers with that PR and the merge commit
\* GitHub records for it, or fails; the loop ends
GP_Get ==
    /\ pc = "prinfo_loop"
    /\ Cardinality(prMap) = 1
    /\ \E e \in prMap, sha \in Shas, fetched \in BOOLEAN :
         IF ~fetched
         THEN /\ pc' = "failed"
              /\ err' = "HttpError"
              /\ UNCHANGED <<prMap, mergedPrInfo>>
         ELSE /\ prMap' = checkAndAddPrInfo(Pull(e.number, sha), prMap, mergedPrInfo).prMap
              /\ mergedPrInfo' =
                     checkAndAddPrInfo(Pull(e.number, sha), prMap, mergedPrInfo).mergedPrInfo
              /\ pc' = "prinfo_done"
              /\ err' = err
    /\ UNCHANGED <<fs, orig, version, checkMode, previewMode, changes, pending, changeWritten,
                   fromVer, toVer, branchMode, pr, change, releaseCfg, mergedPrs, accum,
                   stack, visits, releases, branches, mergeCommits, pageNum, pulls>>

\* several PRs are left: octo.rest.pulls.list answers with the next page; an
\* empty page ends the loop and the function throws
GP_List ==
    /\ pc = "prinfo_loop"
    /\ Cardinality(prMap) > 1
    /\ \E fetched \in BOOLEAN :
         LET page == IF pageNum <= Len(pulls) THEN pulls[pageNum] ELSE <<>>
         IN  IF ~fetched
             THEN /\ pc' = "failed"
                  /\ err' = "HttpError"
                  /\ UNCHANGED <<prMap, mergedPrInfo, pageNum>>
             ELSE IF page = <<>>
             THEN /\ pc' = "failed"
                  /\ err' = "Couldn't find all PRs"
                  /\ UNCHANGED <<prMap, mergedPrInfo, pageNum>>
             ELSE /\ prMap' = AddPage(page, prMap, mergedPrInfo).prMap
                  /\ mergedPrInfo' = AddPage(page, prMap, mergedPrInfo).mergedPrInfo
                  /\ pageNum' = pageNum + 1
                  /\ UNCHANGED <<pc, err>>
    /\ UNCHANGED <<fs, orig, version, checkMode, previewMode, changes, pending, changeWritten,
                   fromVer, toVer, branchMode, pr, change, releaseCfg, mergedPrs, accum,
                   stack, visits, releases, branches, mergeCommits, pulls>>

getPrInfo == GP_Start \/ GP_Return \/ GP_Get \/ GP_List

\* getPrInfo called with the merge commits of a range, on a repository
InitPrInfo ==
    /\ pc = "prinfo_start"
    /\ mergeCommits \in MergeCommitLists
    /\ pulls \in PullListings
    /\ prMap = {}
    /\ mergedPrInfo = <<>>
    /\ pageNum = 1
    /\ fs = [p \in Paths |-> NoFile]
    /\ orig = NoFile
    /\ version = <<>>
    /\ checkMode = FALSE
    /\ previewMode = FALSE
    /\ changes = <<>>
    /\ pending = <<>>
    /\ changeWritten = FALSE
    /\ err = ""
    /\ fromVer = NoRev
    /\ toVer = NoRev
    /\ branchMode = "Exact"
    /\ releaseCfg = NoReleaseCfg
    /\ mergedPrs = <<>>
    /\ accum = NoChanges
    /\ stack = <<>>
    /\ visits = NoVisits
    /\ releases = <<>>
    /\ branches = {}
    /\ pr = NoPr
    /\ change = NoResult

NextPrInfo == getPrInfo

SpecPrInfo == InitPrInfo /\ [][NextPrInfo]_vars

\* changeFromPrInfo called on a pull request
InitClassify ==
    /\ pc = "classify"
    /\ pr \in {p \in PrInfos : /\ (p.hasBody \/ p.body = <<>>)
                              /\ (p.labels = <<>> \/ p.body \in LabelBodies)}
    /\ change = NoResult
    /\ fs = [p \in Paths |-> NoFile]
    /\ orig = NoFile
    /\ version = <<>>
    /\ checkMode = FALSE
    /\ previewMode = FALSE
    /\ changes = <<>>
    /\ pending = <<>>
    /\ changeWritten = FALSE
    /\ err = ""
    /\ fromVer = NoRev
    /\ toVer = NoRev
    /\ branchMode = "Exact"
    /\ releaseCfg = NoReleaseCfg
    /\ mergedPrs = <<>>
    /\ accum = NoChanges
    /\ stack = <<>>
    /\ visits = NoVisits
    /\ releases = <<>>
    /\ branches = {}
    /\ mergeCommits = <<>>
    /\ prMap = {}
    /\ mergedPrInfo = <<>>
    /\ pageNum = 1
    /\ pulls = <<>>

NextClassify == Classify

SpecClassify == InitClassify /\ [][NextClassify]_vars

\* entry of a call of collectChanges: the guard on the accumulator, then the
\* merged PRs of the range resolved, classified and recorded, and the
\* package.json files read if there are subprojects
CC_Enter ==
    /\ pc = "collect"
    /\ stack # <<>>
    /\ Head(stack).next = 0
    /\ LET call == Head(stack)
       IN  IF HasChanges(accum, call.name)
           THEN /\ stack' = Tail(stack)
                /\ pc' = IF Tail(stack) = <<>> THEN "collected" ELSE "collect"
                /\ UNCHANGED <<accum, visits, err>>
           ELSE \E fetched \in BOOLEAN, readable \in BOOLEAN :
                    IF ~fetched
                    THEN /\ pc' = "failed"
                         /\ err' = "Couldn't find all PRs"
                         /\ UNCHANGED <<accum, visits, stack>>
                    ELSE /\ accum' = Append(accum,
                                            [name |-> call.name,
                                             changes |-> ClassifiedChanges(mergedPrs,
                                                             call.forProject,
                                                             call.includeByDefault)])
                         /\ visits' = [visits EXCEPT ![call.name] = @ + 1]
                         /\ IF releaseCfg[call.name] # <<>> /\ ~readable
                            THEN /\ pc' = "failed"
                                 /\ err' = "git show failed"
                                 /\ stack' = stack
                            ELSE /\ stack' = <<[call EXCEPT !.next = 1]>> \o Tail(stack)
                                 /\ UNCHANGED <<pc, err>>
    /\ UNCHANGED <<fs, orig, version, checkMode, previewMode, changes, pending, changeWritten,
                   fromVer, toVer, branchMode, pr, change, releaseCfg, mergedPrs,
                   releases, branches,
                   mergeCommits, prMap, mergedPrInfo, pageNum, pulls>>

\* one iteration of the loop over the subprojects: the range of the
\* subproject, Project.make and the recursive call
CC_Recurse ==
    /\ pc = "collect"
    /\ stack # <<>>
    /\ Head(stack).next \in 1..Len(releaseCfg[Head(stack).name])
    /\ LET call == Head(stack)
           sub == releaseCfg[call.name][call.next]
           range == SubprojectRange(sub, call.fromVer, call.toVer, branchMode)
       IN  \E made \in BOOLEAN :
               IF ~made \/ range.from.threw \/ range.to.threw
               THEN /\ pc' = "failed"
                    /\ err' = IF range.from.threw THEN range.from.err
                              ELSE IF range.to.threw THEN range.to.err
                              ELSE "ENOENT"
                    /\ stack' = stack
               ELSE /\ stack' = <<Call(sub.name, range.from.v, range.to.v, call.forProject,
                                       call.includeByDefault /\ sub.includeByDefault),
                                  [call EXCEPT !.next = @ + 1]>> \o Tail(stack)
                    /\ UNCHANGED <<pc, err>>
    /\ UNCHANGED <<fs, orig, version, checkMode, previewMode, changes, pending, changeWritten,
                   fromVer, toVer, branchMode, pr, change, releaseCfg, mergedPrs, accum, visits,
                   releases, branches,
                   mergeCommits, prMap, mergedPrInfo, pageNum, pulls>>

\* the loop over the subprojects is over: the call returns
CC_Return ==
    /\ pc = "collect"
    /\ stack # <<>>
    /\ Head(stack).next > Len(releaseCfg[Head(stack).name])
    /\ stack' = Tail(stack)
    /\ pc' = IF Tail(stack) = <<>> THEN "collected" ELSE "collect"
    /\ UNCHANGED <<fs, orig, version, checkMode, previewMode, changes, pending, changeWritten,
                   err, fromVer, toVer, branchMode, pr, change, releaseCfg, mergedPrs, accum,
                   visits, releases, branches,
                   mergeCommits, prMap, mergedPrInfo, pageNum, pulls>>

collectChanges == CC_Enter \/ CC_Recurse \/ CC_Return

\* project.collectChanges(changes, fromVer, toVer, branchMode) on the root P
InitCollect ==
    /\ pc = "collect"
    /\ releaseCfg \in ReleaseConfigs
    /\ mergedPrs \in MergedPrLists
    /\ branchMode \in {"Exact", "Release", "Develop"}
    /\ fromVer = <<"v">> \o V110
    /\ toVer = IF branchMode = "Exact" THEN <<"v">> \o V120
               ELSE IF branchMode = "Release" THEN releaseBranchName(semverParse(V120))
               ELSE DEVELOP
    /\ accum = NoChanges
    /\ visits = NoVisits
    /\ releases = <<>>
    /\ branches = {}
    /\ mergeCommits = <<>>
    /\ prMap = {}
    /\ mergedPrInfo = <<>>
    /\ pageNum = 1
    /\ pulls = <<>>
    /\ stack = <<Call(P, fromVer, toVer, P, TRUE)>>
    /\ version = <<"v">> \o V120
    /\ fs = [p \in Paths |-> NoFile]
    /\ orig = NoFile
    /\ checkMode = FALSE
    /\ previewMode = FALSE
    /\ changes = <<>>
    /\ pending = <<>>
    /\ changeWritten = FALSE
    /\ err = ""
    /\ pr = NoPr
    /\ change = NoResult

NextCollect == collectChanges

SpecCollect == InitCollect /\ [][NextCollect]_vars

\* the walk runs on: no call of collectChanges stays suspended for ever
SpecCollectLive == SpecCollect /\ WF_vars(NextCollect)

-----------------------------------------------------------------------------
(* What the claims speak of.                                               *)

\* the whole loop of updateChangelog over a list of entries
RECURSIVE RunEntries(_, _, _, _)
RunEntries(st, entries, forVersion, chgs) ==
    IF entries = <<>> \/ st.threw THEN st
    ELSE RunEntries(EntryStep(st, Head(entries), forVersion, chgs),
                    Tail(entries), forVersion, chgs)

\* updateChangelog run on a CHANGELOG.md of these lines: the file it leaves
\* at CHANGELOG.md, and whether it completed
UpdateOf(lines, forVersion, chgs) ==
    LET st == RunEntries([out |-> <<>>, written |-> FALSE, threw |-> FALSE],
                         readChangelog(lines), forVersion, chgs)
    IN  IF st.threw \/ ~st.written
        THEN [completed |-> FALSE, lines |-> lines]
        ELSE [completed |-> TRUE, lines |-> st.out]

\* A section of a changelog document, by the format of the document: a
\* header line "Changes in [version]" with a semantic version, and the
\* lines up to the next such header.
IsSectionHeader(line) == line.k = "hdr" /\ semverParse(line.ver).valid

RECURSIVE SectionsFrom(_, _, _, _)
SectionsFrom(lines, open, ver, text) ==
    LET closed == IF open THEN <<[version |-> ver, text |-> text]>> ELSE <<>>
    IN  IF lines = <<>> THEN closed
        ELSE IF IsSectionHeader(Head(lines))
        THEN closed \o SectionsFrom(Tail(lines), TRUE, Head(lines).ver, <<Head(lines)>>)
        ELSE SectionsFrom(Tail(lines), open, ver,
                          IF open THEN Append(text, Head(lines)) ELSE text)

Sections(lines) == SectionsFrom(lines, FALSE, <<>>, <<>>)

\* a header the reader takes for one although its version is no semantic version
HasMalformedHeader(lines) ==
    \E i \in 1..Len(lines) : HeaderMatches(lines[i]) /\ ~IsSectionHeader(lines[i])

\* how the new version compares with a section's: 0 equal, 1 section older,
\* -1 section newer
Cmp(forVersion, sec) == semverCompare(semverParse(forVersion), sec.version).r

IsSuperseded(forVersion, sec) ==
    isPrereleaseFor(semverParse(sec.version), semverParse(forVersion))

Occurrences(block, lines) ==
    Cardinality({i \in 1..(Len(lines) - Len(block) + 1) :
                    SubSeq(lines, i, i + Len(block) - 1) = block})

RECURSIVE IsSubsequence(_, _)
IsSubsequence(a, b) ==
    IF a = <<>> THEN TRUE
    ELSE IF b = <<>> THEN FALSE
    ELSE IF Head(a) = Head(b) THEN IsSubsequence(Tail(a), Tail(b))
    ELSE IsSubsequence(a, Tail(b))

SectionTexts(secs) == IF secs = <<>> THEN <<>> ELSE [i \in 1..Len(secs) |-> secs[i].text]

StrictlyDescending(secs) ==
    \A i \in 1..(Len(secs) - 1) :
        semverCompare(semverParse(secs[i].version), secs[i + 1].version).r = 1

NewSection == makeChangelogEntry(changes, version)

Output == fs[changelogFile].lines

Ended == pc \in {"done", "failed"}

\* the sections of the original document that the new version neither
\* replaces nor supersedes
KeptSections ==
    LET Kept(sec) == Cmp(version, sec) # 0 /\ ~IsSuperseded(version, sec)
    IN  SelectSeq(Sections(orig.lines), Kept)

C2_OtherSectionsVerbatimInOrder ==
    (Ended /\ UpdateOf(orig.lines, version, changes).completed) =>
        /\ pc = "done"
        /\ \A i \in 1..Len(KeptSections) : Occurrences(KeptSections[i].text, Output) >= 1
        /\ IsSubsequence(Flatten(SectionTexts(KeptSections)), Output)

\* C3: with a final new version, a section for a prerelease of the same
\* major.minor.patch is dropped and the new section stands in its place, all
\* other sections preserved; a document of that prerelease section alone
\* becomes the new section alone.
C3_PrereleaseSuperseded ==
    LET secs == Sections(orig.lines)
        superseded == \E i \in 1..Len(secs) : IsSuperseded(version, secs[i])
    IN  (Ended /\ superseded /\ ~HasMalformedHeader(orig.lines)) =>
            /\ pc = "done"
            /\ \A i \in 1..Len(Output) :
                   IsSectionHeader(Output[i]) =>
                       ~isPrereleaseFor(semverParse(Output[i].ver), semverParse(version))
            /\ Occurrences(NewSection, Output) >= 1
            /\ IsSubsequence(Flatten(SectionTexts(KeptSections)), Output)
            /\ (Len(secs) = 1 /\ secs[1].text = orig.lines => Output = NewSection)

\* C4: updateChangelog is idempotent: run again on its own output with the
\* same rendered section, for a final or a prerelease version, it leaves
\* exactly the document of the first run.
C4_Idempotent ==
    pc = "done" =>
        /\ UpdateOf(Output, version, changes).completed
        /\ UpdateOf(Output, version, changes).lines = Output

\* C5: when the whole document has been consumed and the new section was
\* never written (no section, or only newer ones), updateChangelog throws
\* instead of completing and CHANGELOG.md keeps its original content.
C5_NotWrittenFails ==
    /\ pc \in {"uc_unlink", "uc_rename", "done"} =>
           /\ changeWritten
           /\ \E i \in 1..Len(readChangelog(orig.lines)) :
                  Cmp(version, readChangelog(orig.lines)[i]) \in {0, 1}
    /\ (pc = "failed" /\ err = "I failed to write the change") =>
           /\ ~changeWritten
           /\ pending = <<>>
           /\ fs[changelogFile] = orig
           /\ \A i \in 1..Len(readChangelog(orig.lines)) :
                  Cmp(version, readChangelog(orig.lines)[i]) = -1

C5_Witness ==
    /\ pc = "failed"
    /\ err = "I failed to write the change"
    /\ readChangelog(orig.lines) # <<>>
    /\ fs[changelogFile] = orig
    /\ fs[tmpFile].exists

\* C6: at every step of updateChangelog the file at CHANGELOG.md exists and
\* holds the complete original or the complete new document.
C6_AtomicRewrite ==
    /\ fs[changelogFile].exists
    /\ pc # "done" => fs[changelogFile] = orig
    /\ pc = "done" => fs[changelogFile].lines = UpdateOf(orig.lines, version, changes).lines

\* C8: for a document whose sections are in strictly descending order, none
\* of the new version and at least one older, the new section is written
\* right before the first older section and after every newer one.
C8_InsertedBeforeFirstOlder ==
    LET secs == Sections(orig.lines)
        Newer(sec) == Cmp(version, sec) = -1
        Older(sec) == Cmp(version, sec) = 1
    IN  (/\ Ended
         /\ ~HasMalformedHeader(orig.lines)
         /\ StrictlyDescending(secs)
         /\ \A i \in 1..Len(secs) : Cmp(version, secs[i]) # 0 /\ ~IsSuperseded(version, secs[i])
         /\ \E i \in 1..Len(secs) : Cmp(version, secs[i]) = 1) =>
            /\ pc = "done"
            /\ Output = Flatten(SectionTexts(SelectSeq(secs, Newer))) \o NewSection
                        \o Flatten(SectionTexts(SelectSeq(secs, Older)))

\* C7: a run of main that fails, in the resolution of the range, in the walk
\* of the project or in updateChangelog before the swap, leaves CHANGELOG.md
\* exactly as it was before the run.
C7_FailureLeavesChangelog ==
    pc = "failed" => fs[changelogFile] = orig

\* updateChangelog failed after it had written part of the temporary file
C7_Witness ==
    /\ pc = "failed"
    /\ err = "I failed to write the change"
    /\ fromVer # NoRev
    /\ fs[tmpFile].exists
    /\ fs[tmpFile].lines # <<>>
    /\ fs[changelogFile] = orig

\* a line changeFromPrInfo takes a signal from
IsMarkerLine(line) ==
    \/ StartsWith(toLowerCase(Trim(line)), NOTES_MAGIC_TEXT)
    \/ StartsWith(toLowerCase(Trim(line)), HEADLINE_MAGIC_TEXT)
    \/ ProjectNotesMatch(line).matched
    \/ HashNumberMatch(line).matched
    \/ OwnerHashNumberMatch(line).matched
    \/ IssueUrlMatch(line).matched

HasNoMarker(p) ==
    \/ ~p.hasBody
    \/ p.body = <<>>
    \/ \A i \in 1..Len(Split(p.body, "\n")) : ~IsMarkerLine(Split(p.body, "\n")[i])

ExpectedIssue(form, p) ==
    IF form = "#"
    THEN [owner |-> p.owner, repo |-> p.repo, number |-> [nan |-> FALSE, n |-> 123]]
    ELSE [owner |-> RefOwner, repo |-> RefRepo, number |-> [nan |-> FALSE, n |-> 123]]

\* C10: each of the nine closing verbs, lower-case or capitalized, with or
\* without a colon, yields for each reference form the same IssueRef: the
\* PR's base repository with number 123 for #123, the explicit owner, repo
\* and number for owner/repo#123 and for the issue URL.
C10_ClosingVerbsSameIssue ==
    pc # "classify" =>
        \A verb \in {<<"c", "l", "o", "s", "e">>,
                   <<"c", "l", "o", "s", "e", "s">>,
                   <<"c", "l", "o", "s", "e", "d">>,
                   <<"f", "i", "x">>,
                   <<"f", "i", "x", "e", "s">>,
                   <<"f", "i", "x", "e", "d">>,
                   <<"r", "e", "s", "o", "l", "v", "e">>,
                   <<"r", "e", "s", "o", "l", "v", "e", "s">>,
                   <<"r", "e", "s", "o", "l", "v", "e", "d">>},
           capital \in BOOLEAN, colon \in BOOLEAN, form \in RefForms :
            pr.body = FixLine(IF capital THEN Capitalize(verb) ELSE verb, colon, form) =>
                /\ pc = "classified"
                /\ change.fixes = <<ExpectedIssue(form, pr)>>

\* "Resolved: https://github.com/matrix-org/allchange/issues/123" classified
C10_Witness ==
    /\ pc = "classified"
    /\ pr.body = FixLine(<<"R", "e", "s", "o", "l", "v", "e", "d">>, TRUE, "https")
    /\ change.fixes = <<[owner |-> RefOwner, repo |-> RefRepo,
                         number |-> [nan |-> FALSE, n |-> 123]]>>

\* C11: a body line of 'notes: ' in any letter case and a value sets notes to
\* the value, to null for the value 'none' in any letter case; a line of
\* 'headlines: ' and a value sets headline to the value, 'none' included.
C11_NotesAndHeadlineLines ==
    pc = "classified" =>
        \A v \in NoteValues :
            /\ \A p \in NotesPrefixes :
                   pr.body = p \o v =>
                       change.notes = IF toLowerCase(v) = <<"n", "o", "n", "e">> THEN Null ELSE Str(v)
            /\ \A p \in HeadlinePrefixes : pr.body = p \o v => change.headline = Str(v)

\* the labels of the table of type labels
IsTypeLabel(label) == label \in {"T-Deprecation", "T-Enhancement", "T-Defect", "T-Task"}

TypeOfLabel(label) ==
    CASE label = "T-Enhancement" -> "FEATURE"
      [] label = "T-Defect" -> "BUGFIX"
      [] label = "T-Task" -> "TASK"
      [] label = "T-Deprecation" -> "DEPRECATION"

\* C12: changeType is unset for a PR without a type label, the table's type
\* for a PR with exactly one type label; the breaking-change label alone sets
\* breaking and leaves changeType unset.
C12_TypeFromLabels ==
    pc = "classified" =>
        LET typed == SelectSeq(pr.labels, IsTypeLabel)
        IN  /\ typed = <<>> => change.changeType = "null"
            /\ Len(typed) = 1 => change.changeType = TypeOfLabel(typed[1])
            /\ pr.labels = <<"X-Breaking-Change">> =>
                   (change.breaking /\ change.changeType = "null")

\* C13: changeType is Feature, Bugfix, Task or unset, and unset exactly when
\* the PR has no type label.
C13_ChangeTypeDomain ==
    pc = "classified" =>
        /\ change.changeType \in {"FEATURE", "BUGFIX", "TASK", "null"}
        /\ (change.changeType = "null" <=> SelectSeq(pr.labels, IsTypeLabel) = <<>>)

\* C14: on a line the patterns are tried in the order notes, headline,
\* project notes, #n, owner/repo#n, issue URL, and only the first that
\* matches takes effect: 'notes: fixes #123' sets the notes and no fix,
\* 'proj notes: closes #5' sets the notes of proj and no fix.
C14_FirstPatternWins ==
    (pc = "classified" /\ pr.body # <<>> /\ IndexOf(pr.body, "\n") = 0) =>
        LET line == pr.body
            isNotes == StartsWith(toLowerCase(Trim(line)), NOTES_MAGIC_TEXT)
            isHeadline == StartsWith(toLowerCase(Trim(line)), HEADLINE_MAGIC_TEXT)
            isProject == ProjectNotesMatch(line).matched
            bare == HashNumberMatch(line)
            ownerRepo == OwnerHashNumberMatch(line)
            url == IssueUrlMatch(line)
            untouched(fields) ==
                /\ ("notes" \in fields \/ change.notes = Str(pr.title))
                /\ ("headline" \in fields \/ change.headline = Null)
                /\ ("notesByProject" \in fields \/ change.notesByProject = <<>>)
                /\ ("fixes" \in fields \/ change.fixes = <<>>)
        IN  /\ isNotes => (untouched({"notes"}) /\ change.notes # Str(pr.title))
            /\ (~isNotes /\ isHeadline) => (untouched({"headline"}) /\ change.headline # Null)
            /\ (~isNotes /\ ~isHeadline /\ isProject) =>
                   (untouched({"notesByProject"}) /\ Len(change.notesByProject) = 1)
            /\ (~isNotes /\ ~isHeadline /\ ~isProject /\ bare.matched) =>
                   /\ untouched({"fixes"})
                   /\ change.fixes = <<IssueID(pr.owner, pr.repo, bare.g[1])>>
            /\ (~isNotes /\ ~isHeadline /\ ~isProject /\ ~bare.matched
                    /\ ownerRepo.matched) =>
                   /\ untouched({"fixes"})
                   /\ change.fixes = <<IssueID(ownerRepo.g[1], ownerRepo.g[2], ownerRepo.g[3])>>
            /\ (~isNotes /\ ~isHeadline /\ ~isProject /\ ~bare.matched
                    /\ ~ownerRepo.matched /\ url.matched) =>
                   /\ untouched({"fixes"})
                   /\ change.fixes = <<IssueID(url.g[1], url.g[2], url.g[3])>>
            /\ line = <<"n", "o", "t", "e", "s", ":", " ", "f", "i", "x", "e", "s", " ", "#", "1", "2", "3">> =>
                   (change.notes = Str(<<"f", "i", "x", "e", "s", " ", "#", "1", "2", "3">>)
                    /\ change.fixes = <<>>)
            /\ line = <<"p", "r", "o", "j", " ", "n", "o", "t", "e", "s", ":", " ", "c", "l", "o", "s", "e", "s", " ", "#", "5">> =>
                   /\ change.notesByProject =
                          <<[project |-> <<"p", "r", "o", "j">>, notes |-> Str(<<"c", "l", "o", "s", "e", "s", " ", "#", "5">>)]>>
                   /\ change.fixes = <<>>

\* 'proj notes: closes #5' classified
C14_Witness ==
    /\ pc = "classified"
    /\ pr.body = <<"p", "r", "o", "j", " ", "n", "o", "t", "e", "s", ":", " ", "c", "l", "o", "s", "e", "s", " ", "#", "5">>
    /\ Len(change.notesByProject) = 1
    /\ change.fixes = <<>>

\* the note of a change for a project: the note addressed to the project if
\* there is one, else the default note
EffectiveNote(c, projectName) ==
    IF ProjectNotesOf(c, projectName).defined THEN ProjectNotesOf(c, projectName).value
    ELSE c.notes

\* the section main renders from the accumulator
Rendered == makeChangelogEntry(AllChanges(accum), version)

\* a line stands in a document
HasLine(lines, line) == \E i \in 1..Len(lines) : lines[i] = line

\* a bullet stands in the block of a heading
UnderHeading(lines, header, bullet) ==
    \E i \in 1..Len(lines) : \E j \in (i + 1)..Len(lines) :
        /\ lines[i] = header
        /\ lines[j] = bullet
        /\ \A k \in (i + 1)..j : lines[k].tag = " * "

C16_ShouldIncludeRule ==
    (pc = "collect" /\ stack # <<>> /\ Head(stack).next = 1) =>
        LET call == Head(stack)
            cs == ChangesOf(accum, call.name)
        IN  \A i \in 1..Len(cs) :
                cs[i].shouldInclude =
                    IF EffectiveNote(cs[i], call.forProject) = Null THEN FALSE
                    ELSE IF ProjectNotesOf(cs[i], call.forProject).defined THEN TRUE
                    ELSE call.includeByDefault

\* S is a subproject of P with includeByDefault = false, and was walked
SubprojectExcludedByDefault ==
    /\ HasChanges(accum, S)
    /\ Len(releaseCfg[P]) >= 1
    /\ releaseCfg[P][1].name = S
    /\ ~releaseCfg[P][1].includeByDefault

C18_WalkTerminatesOncePerProject ==
    /\ [](\A n \in ProjectNames : visits[n] <= 1)
    /\ [][(pc = "collect" /\ stack # <<>> /\ Head(stack).next = 0
              /\ HasChanges(accum, Head(stack).name)) =>
             (accum' = accum /\ visits' = visits /\ stack' = Tail(stack))]_vars
    /\ <>(pc \in {"collected", "failed"})

\* the walk has come back to P through S: P -> S -> P
C18_Witness ==
    /\ pc = "collect"
    /\ Len(stack) = 3
    /\ Head(stack).name = P
    /\ Head(stack).next = 0
    /\ HasChanges(accum, P)
    /\ HasChanges(accum, S)

\* the target version is a prerelease
TargetIsPrerelease ==
    semverParse(version).valid /\ semverParse(version).prerelease # <<>>

\* the releases that may serve as fromVersion: any release for a prerelease
\* target, a non-prerelease release for a final target or for no target
IsEligible(rel) == TargetIsPrerelease \/ ~rel.prerelease

\* the range resolution has run
Resolved == pc \in {"resolved", "failed"}

\* C19: when the release list contains a release named as the target, the
\* resolver returns toVersion = the target, mode Exact and fromVersion = the
\* first eligible release after the target in list order, with no eligible
\* release between the two.
C19_ExistingReleaseRange ==
    (Resolved /\ releasesContains(releases, version)) =>
        \A t \in 1..Len(releases) : \A i \in (t + 1)..Len(releases) :
            (/\ releases[t].name = version
             /\ \A k \in 1..(t - 1) : releases[k].name # version
             /\ releases[i].name # version
             /\ IsEligible(releases[i])
             /\ \A k \in (t + 1)..(i - 1) :
                    releases[k].name = version \/ ~IsEligible(releases[k])) =>
                /\ pc = "resolved"
                /\ toVer = version
                /\ branchMode = "Exact"
                /\ fromVer = releases[i].name

\* a final target found in the list, a prerelease skipped behind it
C19_Witness ==
    /\ pc = "resolved"
    /\ version = <<"v">> \o V120
    /\ releases = <<Release(V120), Release(V120rc1), Release(V110)>>
    /\ fromVer = <<"v">> \o V110
    /\ toVer = version
    /\ branchMode = "Exact"

\* the release branch of the target, if the target names one
TargetReleaseBranch ==
    IF semverParse(version).valid THEN releaseBranchName(semverParse(version)) ELSE <<>>

\* C20: when the target is not in the release list, the resolver returns the
\* release branch of the target in mode Release if that branch exists, else
\* 'staging' in mode Release if that branch exists, else 'develop' in mode
\* Develop, each with fromVersion = the latest release in list order,
\* prereleases counted iff the target is a prerelease; with no target it
\* returns the latest non-prerelease release, 'develop' and mode Develop.
C20_AbsentTargetRange ==
    (Resolved /\ ~releasesContains(releases, version)) =>
        \A i \in 1..Len(releases) :
            (IsEligible(releases[i]) /\ \A k \in 1..(i - 1) : ~IsEligible(releases[k])) =>
                /\ pc = "resolved"
                /\ fromVer = releases[i].name
                /\ IF version = <<>>
                   THEN toVer = DEVELOP /\ branchMode = "Develop"
                   ELSE IF TargetReleaseBranch \in branches
                   THEN toVer = TargetReleaseBranch /\ branchMode = "Release"
                   ELSE IF STAGING \in branches
                   THEN toVer = STAGING /\ branchMode = "Release"
                   ELSE toVer = DEVELOP /\ branchMode = "Develop"

\* the names of the releases in the list
ReleaseNames == {releases[i].name : i \in 1..Len(releases)}

\* the release the resolution needs is not in the list: no eligible release
\* after a target that is in the list, no eligible release at all otherwise
RequiredReleaseMissing ==
    IF releasesContains(releases, version)
    THEN ~\E t \in 1..Len(releases) : \E i \in (t + 1)..Len(releases) :
             /\ releases[t].name = version
             /\ releases[i].name # version
             /\ IsEligible(releases[i])
    ELSE ~\E i \in 1..Len(releases) : IsEligible(releases[i])

\* the errors that say that a release was not found
NotFoundErrors == {"Couldn't find release", "Couldn't find release before"}

\* C21: the resolver never returns a fromVersion that is not the name of a
\* release in the list; when the earlier release or the latest release it
\* needs does not exist, the resolution fails with a NotFound error.
C21_MissingReleaseFails ==
    (Resolved /\ (version = <<>> \/ semverParse(version).valid)) =>
        /\ pc = "resolved" => fromVer \in ReleaseNames
        /\ RequiredReleaseMissing => (pc = "failed" /\ err \in NotFoundErrors)

\* an exact concrete version: MAJOR.MINOR.PATCH with an optional prerelease
IsExactVersion(pin) == semverParse(pin).valid

\* the call on top of the stack has just been made for the subproject sub of
\* the project below it
JustCalledFor(sub) ==
    /\ pc = "collect"
    /\ Len(stack) >= 2
    /\ stack[1].next = 0
    /\ stack[2].next >= 2
    /\ sub = releaseCfg[stack[2].name][stack[2].next - 1]

\* C22: collectChanges recurses into a subproject that does not mirror the
\* version only if the pin read at the parent's fromVersion is an exact
\* concrete version; a range or tag pin stops the walk before the call.
C22_FromPinExact ==
    \A n \in ProjectNames : \A k \in 1..Len(releaseCfg[n]) :
        (JustCalledFor(releaseCfg[n][k]) /\ ~releaseCfg[n][k].mirrorVersion) =>
            IsExactVersion(releaseCfg[n][k].pinFrom)

\* the merge commits the revision walk saw for a PR number
ObservedShas(n) ==
    {mergeCommits[i].sha : i \in {j \in 1..Len(mergeCommits) : mergeCommits[j].PrNumber = n}}

\* C23: every PR getPrInfo returns was asked for and records a merge commit
\* the revision walk saw for its number, and no PR number is returned twice.
C23_ReturnedPrsMatchWalk ==
    /\ \A i \in 1..Len(mergedPrInfo) :
           mergedPrInfo[i].merge_commit_sha \in ObservedShas(mergedPrInfo[i].number)
    /\ \A i \in 1..Len(mergedPrInfo) : \A j \in 1..Len(mergedPrInfo) :
           mergedPrInfo[i].number = mergedPrInfo[j].number => i = j

\* getPrInfo fetched two pages that both hold PR 1, returned it once, and
\* dropped a PR that was asked for because of its merge commit
C23_Witness ==
    /\ pc = "prinfo_done"
    /\ pageNum = 3
    /\ \A p \in 1..2 : \E k \in 1..Len(pulls[p]) : pulls[p][k] = Pull(1, "aaa")
    /\ \E i \in 1..Len(mergedPrInfo) : mergedPrInfo[i] = Pull(1, "aaa")
    /\ \E i \in 1..Len(mergeCommits) :
           \A j \in 1..Len(mergedPrInfo) : mergedPrInfo[j].number # mergeCommits[i].PrNumber

\* the whole remainder of a line after its first colon, trimmed
RemainderAfterColon(line) ==
    Trim(SubSeq(Trim(line), IndexOf(Trim(line), ":") + 1, Len(Trim(line))))

\* C24: the value of a 'notes: ' or 'headlines: ' line is the whole remainder
\* of the trimmed line after the first colon, trimmed, colons in it included.
C24_WholeRemainder ==
    (pc = "classified" /\ pr.body \in NoteLines) =>
        /\ (\E p \in NotesPrefixes : StartsWith(pr.body, p)) =>
               change.notes = NoneToNull(RemainderAfterColon(pr.body))
        /\ (\E p \in HeadlinePrefixes : StartsWith(pr.body, p)) =>
               change.headline = Str(RemainderAfterColon(pr.body))

\* C25: fixes holds one IssueRef per issue reference of the body, in body
\* order and with repetitions: the same reference on two lines gives two
\* equal entries, and 'fixes #1 and closes a/b#2' gives one entry for each of
\* its two references.
C25_OneIssuePerMatch ==
    pc = "classified" =>
        /\ pr.body = SameRefTwice =>
               change.fixes = <<IssueID(pr.owner, pr.repo, <<"1">>),
                                IssueID(pr.owner, pr.repo, <<"1">>)>>
        /\ pr.body = TwoRefsLine =>
               change.fixes = <<IssueID(pr.owner, pr.repo, <<"1">>),
                                IssueID(<<"a">>, <<"b">>, <<"2">>)>>

\* release-v{major}.{minor}.{patch} of an exact pin: the pin without its
\* prerelease part
ReleaseBranchOfPin(pin) ==
    <<"r", "e", "l", "e", "a", "s", "e", "-", "v">>
    \o (IF IndexOf(pin, "-") = 0 THEN pin ELSE SubSeq(pin, 1, IndexOf(pin, "-") - 1))

\* C26: the call for a declared subproject has the root project of the
\* parent's call, and as range the parent's range if the subproject mirrors
\* the version, else from = 'v' + the pin at the parent's fromVersion and
\* to = 'develop' in Develop mode, the release branch of the pin at the
\* parent's toVersion in Release mode, 'v' + that pin in Exact mode.
C26_SubprojectRange ==
    \A n \in ProjectNames : \A k \in 1..Len(releaseCfg[n]) :
        LET sub == releaseCfg[n][k]
        IN  JustCalledFor(sub) =>
                /\ stack[1].name = sub.name
                /\ stack[1].forProject = stack[2].forProject
                /\ stack[1].fromVer =
                       IF sub.mirrorVersion THEN stack[2].fromVer ELSE <<"v">> \o sub.pinFrom
                /\ stack[1].toVer =
                       IF sub.mirrorVersion THEN stack[2].toVer
                       ELSE IF branchMode = "Develop" THEN DEVELOP
                       ELSE IF branchMode = "Release" THEN ReleaseBranchOfPin(sub.pinTo)
                       ELSE <<"v">> \o sub.pinTo

\* in Release mode the walk has called S with the range of two pins
C26_Witness ==
    /\ pc = "collect"
    /\ branchMode = "Release"
    /\ Len(stack) = 2
    /\ stack[1].name = S
    /\ stack[1].next = 0
    /\ stack[1].fromVer = <<"v">> \o ExactPin
    /\ stack[1].toVer = <<"r", "e", "l", "e", "a", "s", "e", "-", "v", "1", ".", "3", ".", "0">>

\* hasChangeTypeLabel(pr): a label of the PR is a key of labelToChangeType
hasChangeTypeLabel(p) == \E i \in 1..Len(p.labels) : IsTypeLabel(p.labels[i])

\* the rendered section has a bullet for the PR
HasBullet(lines, number) == \E i \in 1..Len(lines) : lines[i] = BulletLine(number)

\* C27: after collectChanges every change whose changeType is Task or unset
\* has shouldInclude = false, whatever its notes and the includeByDefault
\* flag, so a PR without a changelog type label has no bullet in the section
\* rendered from the collected changes.
C27_UntypedNeverIncluded ==
    /\ \A i \in 1..Len(AllChanges(accum)) :
           AllChanges(accum)[i].changeType \in {"TASK", "null"} =>
               ~AllChanges(accum)[i].shouldInclude
    /\ (pc = "collected" /\ mergedPrs # <<>> /\ ~hasChangeTypeLabel(mergedPrs[1].info)) =>
           ~HasBullet(Rendered, mergedPrs[1].number)

\* what the accumulator holds under a project's name
EntriesOf(acc, name) ==
    [i \in {j \in 1..Len(acc) : acc[j].name = name} |-> acc[i].changes]

\* the call at hand is at its guard and its project is already recorded
LaterPathArrives ==
    /\ pc = "collect"
    /\ stack # <<>>
    /\ Head(stack).next = 0
    /\ EntriesOf(accum, Head(stack).name) # <<>>

\* C28: the first path that reaches a project decides its entry: once the
\* project is recorded its changes and their shouldInclude flags never change
\* and its body (the fetch of the range's PRs) never runs again, and a call
\* that arrives for it later, whatever its range and includeByDefault, leaves
\* the whole accumulator as it is.
C28_FirstPathDecides ==
    [][/\ \A n \in ProjectNames :
              EntriesOf(accum, n) # <<>> =>
                  /\ EntriesOf(accum', n) = EntriesOf(accum, n)
                  /\ visits'[n] = visits[n]
       /\ \A n \in ProjectNames :
              (EntriesOf(accum, n) = <<>> /\ EntriesOf(accum', n) # <<>>) =>
                  /\ Head(stack).name = n
                  /\ EntriesOf(accum', n) =
                         (Len(accum) + 1 :> ClassifiedChanges(mergedPrs, Head(stack).forProject,
                                                              Head(stack).includeByDefault))
       /\ LaterPathArrives => (accum' = accum /\ visits' = visits)]_vars

\* T was recorded through S with includeByDefault = false and a change that is
\* left out for it; the later path from P, with includeByDefault = true and
\* another range, has been walked and the change is still left out
C28_Witness ==
    /\ pc = "collected"
    /\ branchMode = "Exact"
    /\ releaseCfg[P] = <<Sub(S, FALSE, FALSE, ExactPin),
                         [Sub(T, TRUE, FALSE, ExactPin) EXCEPT !.pinTo = LaterPin]>>
    /\ releaseCfg[S] = <<Sub(T, TRUE, FALSE, ExactPin)>>
    /\ visits[T] = 1
    /\ \E i \in 1..Len(ChangesOf(accum, T)) :
           /\ ~ChangesOf(accum, T)[i].shouldInclude
           /\ shouldIncludeChange(P, ChangesOf(accum, T)[i], TRUE)

\* the lines of a document before its first 'Changes in [version]' header
RECURSIVE Preamble(_)
Preamble(lines) ==
    IF lines = <<>> \/ Head(lines).k = "hdr" THEN <<>>
    ELSE <<Head(lines)>> \o Preamble(Tail(lines))

\* C29: a successful updateChangelog loses no line of the existing document
\* but those of the section it replaces or supersedes: the lines before the
\* first recognised header and the lines of every other section are in the
\* output document.
C29_NoLineLost ==
    pc = "done" =>
        /\ \A i \in 1..Len(Preamble(orig.lines)) : HasLine(Output, Preamble(orig.lines)[i])
        /\ \A i \in 1..Len(KeptSections) :
               \A j \in 1..Len(KeptSections[i].text) : HasLine(Output, KeptSections[i].text[j])

\* the lines of the section that are the bullet of a PR
BulletsOf(lines, number) == {i \in 1..Len(lines) : lines[i] = BulletLine(number)}

\* the changes of a PR that are marked for inclusion
IncludedOf(chgs, number) ==
    {i \in 1..Len(chgs) : chgs[i].number = number /\ chgs[i].shouldInclude}

CategoryHeadings ==
    <<securityFixHeader, breakingChangeHeader, featureChangeHeader, bugFixChangeHeader>>

\* the category heading a line of the section stands under, 0 if none
HeadingAbove(lines, i) ==
    LET above == {j \in 1..(i - 1) : \E h \in 1..4 : lines[j] = CategoryHeadings[h]}
    IN  IF above = {} THEN 0
        ELSE CHOOSE h \in 1..4 :
                 lines[CHOOSE j \in above : \A k \in above : k <= j] = CategoryHeadings[h]

\* C30: the section rendered from the collected changes has exactly one
\* bullet, under a category heading, for every change with shouldInclude =
\* true and none for a change with shouldInclude = false, and the headings
\* stand in the order Security, Breaking, Features, Bug Fixes.
C30_OneBulletPerIncluded ==
    pc = "collected" =>
        /\ \A n \in {AllChanges(accum)[i].number : i \in 1..Len(AllChanges(accum))} :
               /\ Cardinality(BulletsOf(Rendered, n)) =
                      Cardinality(IncludedOf(AllChanges(accum), n))
               /\ \A i \in BulletsOf(Rendered, n) : HeadingAbove(Rendered, i) # 0
        /\ \A i, j \in 1..Len(Rendered) :
               (i < j /\ HeadingAbove(Rendered, i) # 0) =>
                   HeadingAbove(Rendered, i) <= HeadingAbove(Rendered, j)

====
